---- MODULE Spec2Model ----
(***************************************************************************)
(* Model of the chunked LLM-extraction orchestrator of AIService           *)
(* (src/unnamed/part_002): createChunks, processChunkWithRetry,            *)
(* processSingleChunk, mergeChunkResults and extractChecklist.             *)
(*                                                                         *)
(* The class defines extractChecklist twice (lines 405 and 660); the later *)
(* definition replaces the earlier one and is the one modelled.            *)
(*                                                                         *)
(* Three specifications share the state: SpecChunks applies createChunks   *)
(* to bounded inputs, SpecMerge applies mergeChunkResults to result lists  *)
(* in any order, and Spec runs one extractChecklist call of a constructed  *)
(* service from its entry to its return or throw.                          *)
(*                                                                         *)
(* A line of text is a record [text, length]: `text` identifies the        *)
(* content of the line and `length` is the value of its JS .length.        *)
(***************************************************************************)
EXTENDS Integers, Sequences, FiniteSets, TLC

\* ------------------------------------------------------------------ bounds

\* Largest number of data rows of an input.
MaxRows == 11

\* ------------------------------------------------------- program constants

\* chunkingConfig.minRowsPerChunk
minRowsPerChunk == 5
\* chunkingConfig.maxRetries
maxRetries == 2
\* formatting overhead added by estimateChunkSize / createChunks
FormatOverhead == 100
\* fallback of getMaxCharsForCurrentProvider
DefaultMaxChars == 3000
\* small-dataset cutoff of the effective (last) extractChecklist definition
SmallDatasetRows == 50
\* base of the exponential backoff, in milliseconds
BackoffBaseMs == 1000

\* chunkingConfig.maxCharsPerChunk
maxCharsPerChunk ==
  [m \in {"claude-3-haiku-20240307", "claude-3-sonnet-20240229",
          "claude-3-opus-20240229", "gpt-3.5-turbo", "gpt-4", "gpt-4-turbo"} |->
     CASE m = "claude-3-haiku-20240307" -> 3000
       [] m = "claude-3-sonnet-20240229" -> 6000
       [] m = "claude-3-opus-20240229" -> 12000
       [] m = "gpt-3.5-turbo" -> 3000
       [] m = "gpt-4" -> 6000
       [] m = "gpt-4-turbo" -> 12000]

\* ------------------------------------------------------------ input values

\* Lengths of the data rows the inputs are built from.
RowLens == {400, 700}
\* Lengths of the header line.
HeaderLens == {20}

\* The JS value undefined (a missing property).
Undefined == "undefined"

\* obj.f in JS: the property, or undefined when the object has none.
Field(obj, f) == IF f \in DOMAIN obj THEN obj[f] ELSE Undefined

Line(t, n) == [text |-> t, length |-> n]

\* Sequences over S of length 0..n.
SeqUpTo(S, n) == UNION {[1..k -> S] : k \in 0..n}

\* The data rows with the given lengths; row k has content k.
RowsOf(lens) == [k \in 1..Len(lens) |-> Line(k, lens[k])]

RECURSIVE SumSeq(_)
SumSeq(s) == IF s = <<>> THEN 0 ELSE s[1] + SumSeq(Tail(s))

\* ------------------------------------------------------------ SizeEstimator

\* The estimate without the newline counted for each row.
estimateChunkSizeNoNewline(header, rows) ==
  header.length + SumSeq([k \in 1..Len(rows) |-> rows[k].length]) + FormatOverhead

\* estimateChunkSize(header, rows)
estimateChunkSize(header, rows) ==
  header.length + SumSeq([k \in 1..Len(rows) |-> rows[k].length + 1]) + FormatOverhead

\* ------------------------------------------------------------------ Chunker

\* The condition under which createChunks closes the running chunk.
ShouldCloseNoFloor(currentChunkSize, rowSize, maxChars, currentLen) ==
  currentChunkSize + rowSize > maxChars

\* The floor taken as a number of rows the running chunk must exceed.
ShouldCloseAboveFloor(currentChunkSize, rowSize, maxChars, currentLen) ==
  currentChunkSize + rowSize > maxChars /\ currentLen > minRowsPerChunk

\* The floor taken one row lower than minRowsPerChunk.
ShouldCloseOneBelowFloor(currentChunkSize, rowSize, maxChars, currentLen) ==
  currentChunkSize + rowSize > maxChars /\ currentLen >= minRowsPerChunk - 1

ShouldClose(currentChunkSize, rowSize, maxChars, currentLen) ==
  currentChunkSize + rowSize > maxChars /\ currentLen >= minRowsPerChunk

\* The chunk pushed inside the loop of createChunks.
ClosedChunk(header, chunks, currentChunk, currentChunkSize) ==
  [header |-> header,
   rows |-> currentChunk,
   startIndex |-> IF Len(chunks) = 0 THEN 0 ELSE chunks[Len(chunks)].endIndex,
   endIndex |-> IF Len(chunks) = 0 THEN Len(currentChunk) - 1
                ELSE chunks[Len(chunks)].endIndex + Len(currentChunk),
   estimatedSize |-> currentChunkSize]

\* The chunk pushed after the loop of createChunks.
LastChunk(header, chunks, currentChunk, currentChunkSize) ==
  [header |-> header,
   rows |-> currentChunk,
   startIndex |-> IF Len(chunks) = 0 THEN 0 ELSE chunks[Len(chunks)].endIndex + 1,
   endIndex |-> IF Len(chunks) = 0 THEN Len(currentChunk) - 1
                ELSE chunks[Len(chunks)].endIndex + Len(currentChunk),
   estimatedSize |-> currentChunkSize]

\* The iteration that starts the new chunk empty instead of seeding it with
\* the row that did not fit.
createChunksStepNoSeed(st, header, row, maxChars) ==
  LET rowSize == row.length + 1 IN
  IF ShouldClose(st.currentChunkSize, rowSize, maxChars, Len(st.currentChunk))
  THEN [chunks |-> Append(st.chunks,
                     ClosedChunk(header, st.chunks, st.currentChunk, st.currentChunkSize)),
        currentChunk |-> <<>>,
        currentChunkSize |-> header.length + FormatOverhead]
  ELSE [chunks |-> st.chunks,
        currentChunk |-> Append(st.currentChunk, row),
        currentChunkSize |-> st.currentChunkSize + rowSize]

\* One iteration of the loop of createChunks on row dataRows[i].
createChunksStep(st, header, row, maxChars) ==
  LET rowSize == row.length + 1 IN
  IF ShouldClose(st.currentChunkSize, rowSize, maxChars, Len(st.currentChunk))
  THEN [chunks |-> Append(st.chunks,
                     ClosedChunk(header, st.chunks, st.currentChunk, st.currentChunkSize)),
        currentChunk |-> <<row>>,
        currentChunkSize |-> header.length + rowSize + FormatOverhead]
  ELSE [chunks |-> st.chunks,
        currentChunk |-> Append(st.currentChunk, row),
        currentChunkSize |-> st.currentChunkSize + rowSize]

\* The loop of createChunks from row i on. There are never more chunks than
\* rows: the second test is always false, and makes each iteration work on
\* the evaluated state of the one before it.
RECURSIVE createChunksLoop(_, _, _, _, _)
createChunksLoop(st, header, dataRows, i, maxChars) ==
  IF i > Len(dataRows) \/ Len(st.chunks) > Len(dataRows) THEN st
  ELSE createChunksLoop(createChunksStep(st, header, dataRows[i], maxChars),
                        header, dataRows, i + 1, maxChars)

\* createChunks(parsedData, maxCharsPerChunk)
createChunks(parsedData, maxChars) ==
  LET header == parsedData.header
      st0 == [chunks |-> <<>>, currentChunk |-> <<>>,
              currentChunkSize |-> header.length + FormatOverhead]
      st == createChunksLoop(st0, header, parsedData.dataRows, 1, maxChars)
  IN IF Len(st.currentChunk) > 0
     THEN Append(st.chunks,
            LastChunk(header, st.chunks, st.currentChunk, st.currentChunkSize))
     ELSE st.chunks

\* ------------------------------------------------------------ ChunkResult

\* The object returned by processChunkWithRetry after a successful attempt.
SuccessResult(chunk, chunkIndex, result) ==
  [success |-> TRUE,
   data |-> result,
   chunkIndex |-> chunkIndex,
   itemCount |-> Len(result),
   startIndex |-> chunk.startIndex,
   endIndex |-> chunk.endIndex]

\* The failure object with rowCount taken from the index range instead of
\* the rows of the chunk.
FailureResultRangeCount(chunk, chunkIndex, lastError) ==
  [success |-> FALSE,
   error |-> lastError,
   chunkIndex |-> chunkIndex,
   startIndex |-> chunk.startIndex,
   endIndex |-> chunk.endIndex,
   rowCount |-> chunk.endIndex - chunk.startIndex]

\* The failure object carrying the 1-based number of the chunk.
FailureResultOneBased(chunk, chunkIndex, lastError) ==
  [success |-> FALSE,
   error |-> lastError,
   chunkIndex |-> chunkIndex + 1,
   startIndex |-> chunk.startIndex,
   endIndex |-> chunk.endIndex,
   rowCount |-> Len(chunk.rows)]

\* The object returned by processChunkWithRetry after all attempts failed.
FailureResult(chunk, chunkIndex, lastError) ==
  [success |-> FALSE,
   error |-> lastError,
   chunkIndex |-> chunkIndex,
   startIndex |-> chunk.startIndex,
   endIndex |-> chunk.endIndex,
   rowCount |-> Len(chunk.rows)]

\* -------------------------------------------------------------- ResultMerger

\* {...item, id: n}: the item with its id set, or overwritten, by n.
WithId(item, n) ==
  [f \in (DOMAIN item) \cup {"id"} |-> IF f = "id" THEN n ELSE item[f]]

\* {id: n, ...item}: an id the item already carries wins over n.
WithIdUnlessPresent(item, n) ==
  [f \in (DOMAIN item) \cup {"id"} |-> IF f \in DOMAIN item THEN item[f] ELSE n]

\* result.data.map(item => ({...item, id: currentId++}))
AssignIdsKeepingOwn(data, currentId) ==
  [k \in 1..Len(data) |-> WithIdUnlessPresent(data[k], currentId + k - 1)]

AssignIds(data, currentId) ==
  [k \in 1..Len(data) |-> WithId(data[k], currentId + k - 1)]

\* result.map((item, index) => ({...item, id: index + 1})) of the
\* single-unit path
AssignIndexIds(list) == [k \in 1..Len(list) |-> WithId(list[k], k)]

\* The position at which Array.prototype.sort (stable) places r among the
\* already sorted results: after every result whose chunkIndex is not larger.
RECURSIVE InsertByChunkIndex(_, _)
InsertByChunkIndex(sorted, r) ==
  IF sorted = <<>> THEN <<r>>
  ELSE IF sorted[Len(sorted)].chunkIndex - r.chunkIndex <= 0
       THEN Append(sorted, r)
       ELSE Append(InsertByChunkIndex(SubSeq(sorted, 1, Len(sorted) - 1), r),
                   sorted[Len(sorted)])

RECURSIVE SortLoop(_, _)
SortLoop(sorted, rest) ==
  IF rest = <<>> THEN sorted
  ELSE SortLoop(InsertByChunkIndex(sorted, rest[1]), Tail(rest))

\* The array left as it was given.
NoSort(chunkResults) == chunkResults

\* chunkResults.sort((a, b) => a.chunkIndex - b.chunkIndex)
SortByChunkIndex(chunkResults) == SortLoop(<<>>, chunkResults)

\* The entry pushed to `failed` for a result that is not a success with data.
FailedEntry(result) ==
  [chunkIndex |-> result.chunkIndex + 1,
   error |-> Field(result, "error"),
   affectedRows |-> <<result.startIndex + 1, result.endIndex + 1>>,
   rowCount |-> Field(result, "rowCount")]

\* result.success && result.data (data, when present, is an array: truthy)
SuccessWithData(result) == result.success /\ "data" \in DOMAIN result

\* One iteration of the loop of mergeChunkResults.
mergeStep(acc, result) ==
  IF SuccessWithData(result)
  THEN [merged |-> acc.merged \o AssignIds(result.data, acc.currentId),
        failed |-> acc.failed,
        currentId |-> acc.currentId + Len(result.data)]
  ELSE [merged |-> acc.merged,
        failed |-> Append(acc.failed, FailedEntry(result)),
        currentId |-> acc.currentId]

RECURSIVE mergeLoop(_, _)
mergeLoop(acc, sortedResults) ==
  IF sortedResults = <<>> THEN acc
  ELSE mergeLoop(mergeStep(acc, sortedResults[1]), Tail(sortedResults))

\* mergeChunkResults(chunkResults): the returned {merged, failed, stats}.
mergeChunkResults(chunkResults) ==
  LET sortedResults == SortByChunkIndex(chunkResults)
      acc == mergeLoop([merged |-> <<>>, failed |-> <<>>, currentId |-> 1],
                       sortedResults)
  IN [merged |-> acc.merged,
      failed |-> acc.failed,
      stats |-> [totalItems |-> Len(acc.merged),
                 successfulChunks |->
                   Cardinality({k \in 1..Len(sortedResults) : sortedResults[k].success}),
                 failedChunks |-> Len(acc.failed),
                 totalChunks |-> Len(sortedResults)]]

\* The caller's array after a merge written with `item.id = currentId++`:
\* sorted, and the items of every successful result renumbered in place.
RECURSIVE IdsInPlaceLoop(_, _)
IdsInPlaceLoop(sortedResults, currentId) ==
  IF sortedResults = <<>> THEN <<>>
  ELSE LET r == sortedResults[1] IN
       IF SuccessWithData(r)
       THEN <<[r EXCEPT !.data = AssignIds(r.data, currentId)]>>
            \o IdsInPlaceLoop(Tail(sortedResults), currentId + Len(r.data))
       ELSE <<r>> \o IdsInPlaceLoop(Tail(sortedResults), currentId)

ArrayAfterMergeIdsInPlace(chunkResults) ==
  IdsInPlaceLoop(SortByChunkIndex(chunkResults), 1)

\* The caller's array once mergeChunkResults has returned: the sort works in
\* place, so the array is reordered; the results and their items are only
\* read (the merged items are copies made by the spread).
ArrayAfterMerge(chunkResults) == SortByChunkIndex(chunkResults)

\* --------------------------------------------------------- provider values

\* Checklist items as a provider may return them: with an id of its own,
\* or without one.
ItemA == [id |-> 7, question |-> "Name?", type |-> "textField"]
ItemB == [question |-> "State?", type |-> "dropdown"]

ItemLists == {<<>>, <<ItemA>>, <<ItemB, ItemA>>}

\* Parsed JSON values.
JArray(items) == [t |-> "array", items |-> items]
JObject(fields) == [t |-> "object", fields |-> fields]
JInvalid == [t |-> "invalid"]
JNull == [t |-> "null"]
JText(s) == [t |-> "string", s |-> s]
JAbsent == [t |-> "undefined"]

\* parsed[key] for a parsed JSON value that is not null: the member of an
\* object, undefined for a missing key, an array or a string.
Member(parsed, key) ==
  IF parsed.t = "object" /\ key \in DOMAIN parsed.fields
  THEN parsed.fields[key]
  ELSE JAbsent

\* Boolean(v) for a parsed JSON value: arrays and objects are truthy.
JsonTruthy(v) ==
  /\ v.t \notin {"undefined", "null"}
  /\ ~(v.t = "string" /\ v.s = "")

\* What a provider call can come back with: a rejected request (network or
\* API error, timeout) or a response whose text is `body`.
RawError == [kind |-> "error"]
RawText(body) == [kind |-> "text", body |-> body]

RawResponses ==
  {RawError, RawText(JInvalid), RawText(JObject([note |-> JArray(<<>>)])),
   RawText(JObject([checklist |-> JArray(<<ItemA>>)]))}
  \cup {RawText(JArray(l)) : l \in ItemLists}

\* The outcome of an async call: a value, or a thrown Error (its message).
Ok(v) == [ok |-> TRUE, value |-> v]
Fail(msg) == [ok |-> FALSE, error |-> msg]

\* The state of a variable that holds no Error / no value yet.
NoError == <<>>

\* ------------------------------------------------------------ configuration

\* String.prototype.toLowerCase on the AI_PROVIDER values of the model.
toLowerCase(str) ==
  CASE str = "BOTH" -> "both"
    [] str = "Both" -> "both"
    [] OTHER -> str

\* Values of process.env.AI_PROVIDER ("" : unset).
AIProviderValues == {"", "claude", "openai", "both", "BOTH"}

\* Values of process.env.CLAUDE_MODEL ("" : unset).
ClaudeModelValues == {"", "claude-3-sonnet-20240229"}

Environments ==
  [AI_PROVIDER : AIProviderValues,
   OPENAI_API_KEY : BOOLEAN,
   ANTHROPIC_API_KEY : BOOLEAN,
   CLAUDE_MODEL : ClaudeModelValues,
   OPENAI_MODEL : {""}]

\* a || b on strings
OrElse(a, b) == IF a = "" THEN b ELSE a

shouldUseOpenAI(prov) == toLowerCase(prov) \in {"openai", "both"}

shouldUseClaude(prov) == toLowerCase(prov) \in {"claude", "both"}

\* getMaxCharsForCurrentProvider()
getMaxCharsForCurrentProvider(e, prov, hasAnthropic, hasOpenai) ==
  IF shouldUseClaude(prov) /\ hasAnthropic
  THEN LET model == OrElse(e.CLAUDE_MODEL, "claude-3-haiku-20240307")
       IN IF model \in DOMAIN maxCharsPerChunk THEN maxCharsPerChunk[model]
          ELSE DefaultMaxChars
  ELSE IF shouldUseOpenAI(prov) /\ hasOpenai
  THEN LET model == OrElse(e.OPENAI_MODEL, "gpt-3.5-turbo")
       IN IF model \in DOMAIN maxCharsPerChunk THEN maxCharsPerChunk[model]
          ELSE DefaultMaxChars
  ELSE DefaultMaxChars

\* The property names every object literal inherits from Object.prototype:
\* models[provider] finds them although models has no such key of its own.
ObjectPrototypeNames ==
  {"constructor", "toString", "toLocaleString", "valueOf", "hasOwnProperty",
   "isPrototypeOf", "propertyIsEnumerable", "__proto__"}

\* An inherited member of an object literal: a truthy value that has none of
\* the properties small, medium and large.
Inherited == [inherited |-> TRUE]

\* Whether models[provider] is truthy: provider is a key of the literal or
\* a name found on its prototype.
HasModels(prov) == prov \in {"claude", "openai"} \cup ObjectPrototypeNames

\* models[provider], where it is truthy, for the object literal models of
\* selectModelForChunk.
ModelsOf(prov) ==
  LET claudeModels == [small |-> "claude-3-haiku-20240307",
                       medium |-> "claude-3-sonnet-20240229",
                       large |-> "claude-3-opus-20240229"]
      openaiModels == [small |-> "gpt-3.5-turbo", medium |-> "gpt-4",
                       large |-> "gpt-4-turbo"]
  IN IF prov = "claude" THEN claudeModels
     ELSE IF prov = "openai" THEN openaiModels
     ELSE Inherited

\* obj[tier]: undefined when obj has no such property.
Tier(obj, tier) == IF tier \in DOMAIN obj THEN obj[tier] ELSE Undefined

\* selectModelForChunk(chunkSize, provider)
selectModelForChunk(chunkSize, prov) ==
  LET providerModels == IF HasModels(prov) THEN ModelsOf(prov)
                        ELSE ModelsOf("claude")
  IN IF chunkSize <= 3000 THEN Tier(providerModels, "small")
     ELSE IF chunkSize <= 6000 THEN Tier(providerModels, "medium")
     ELSE Tier(providerModels, "large")

\* ------------------------------------------------------------- Row extractor

\* A line that is empty after trim().
IsBlank(line) == line.text = -1

\* !excelText || excelText.trim().length === 0
IsEmptyText(text) == \A k \in 1..Len(text) : IsBlank(text[k])

\* parseExcelToRows(excelText)
parseExcelToRows(text) ==
  LET NonBlank(line) == ~IsBlank(line)
      lines == SelectSeq(text, NonBlank)
  IN IF Len(lines) = 0 THEN Fail(<<"No data found in Excel text">>)
     ELSE Ok([header |-> lines[1],
              dataRows |-> Tail(lines),
              totalRows |-> Len(lines) - 1])

\* ------------------------------------------------------------ ChunkExecutor

\* extractWithClaude, from the response on: parse, require an array.
extractWithClaude(raw) ==
  IF raw.kind = "error"
  THEN Fail(<<"Claude processing failed", "request failed">>)
  ELSE IF raw.body.t = "invalid"
  THEN Fail(<<"Claude processing failed", "Unexpected token in JSON">>)
  ELSE IF raw.body.t # "array"
  THEN Fail(<<"Claude processing failed", "Claude response is not an array">>)
  ELSE Ok(raw.body.items)

\* parsed.checklist || parsed.items || parsed
UnwrapChecklist(parsed) ==
  IF JsonTruthy(Member(parsed, "checklist"))
  THEN Member(parsed, "checklist")
  ELSE IF JsonTruthy(Member(parsed, "items"))
  THEN Member(parsed, "items")
  ELSE parsed

\* extractWithOpenAI, from the response on: parse, unwrap, require an array.
extractWithOpenAI(raw) ==
  IF raw.kind = "error"
  THEN Fail(<<"OpenAI processing failed", "request failed">>)
  ELSE IF raw.body.t = "invalid"
  THEN Fail(<<"OpenAI processing failed", "Unexpected token in JSON">>)
  ELSE IF raw.body.t = "null"
  THEN Fail(<<"OpenAI processing failed", "Cannot read properties of null">>)
  ELSE IF UnwrapChecklist(raw.body).t # "array"
  THEN Fail(<<"OpenAI processing failed",
              "OpenAI response does not contain valid checklist array">>)
  ELSE Ok(UnwrapChecklist(raw.body).items)

\* The error processSingleChunk throws when no client can be used.
NoProviderError == <<"No AI provider available for chunk processing">>

\* ---------------------------------------------------------- RetryCoordinator

\* The exponent taken from the attempt to come.
BackoffDelayNextAttempt(attempt) == BackoffBaseMs * 2 ^ attempt

\* 1000 * Math.pow(2, attempt - 1)
BackoffDelay(attempt) == BackoffBaseMs * 2 ^ (attempt - 1)

\* What becomes of an error thrown by processSingleChunk when nothing
\* catches it on the last attempt.
FailureDispositionNoCatch(callMode, attempt) ==
  IF callMode = "single" THEN "throw"
  ELSE IF attempt <= maxRetries THEN "backoff"
  ELSE "throw"

\* The retry loop going one attempt further.
FailureDispositionOneMore(callMode, attempt) ==
  IF callMode = "single" THEN "throw"
  ELSE IF attempt <= maxRetries + 1 THEN "backoff"
  ELSE "exhausted"

\* The last failed attempt neither retried nor turned into a failure
\* result: the call of processChunkWithRetry stays pending.
FailureDispositionUnsettled(callMode, attempt) ==
  IF callMode = "single" THEN "throw"
  ELSE IF attempt <= maxRetries THEN "backoff"
  ELSE "pending"

\* What becomes of an error thrown by processSingleChunk: on the single-unit
\* path extractChecklist rethrows it; in processChunkWithRetry the catch
\* block waits and retries while attempt <= maxRetries, and after attempt
\* maxRetries + 1 the loop ends and a failure result is returned.
FailureDisposition(callMode, attempt) ==
  IF callMode = "single" THEN "throw"
  ELSE IF attempt <= maxRetries THEN "backoff"
  ELSE "exhausted"

\* The 'retrying' event numbered with the attempt to come, as its status
\* text is.
ProgressEventRetryNext(chunkIndex, totalChunks, attempt, maxAttempts, status) ==
  [chunkIndex |-> chunkIndex, totalChunks |-> totalChunks,
   attempt |-> IF status = "retrying" THEN attempt + 1 ELSE attempt,
   maxAttempts |-> maxAttempts, status |-> status]

\* The events of a completed chunk report no chunk index of their own.
ProgressEventCompletedUnindexed(chunkIndex, totalChunks, attempt, maxAttempts, status) ==
  [chunkIndex |-> IF status = "completed" THEN 0 ELSE chunkIndex,
   totalChunks |-> totalChunks, attempt |-> attempt,
   maxAttempts |-> maxAttempts, status |-> status]

\* The progress event passed to progressCallback.
ProgressEvent(chunkIndex, totalChunks, attempt, maxAttempts, status) ==
  [chunkIndex |-> chunkIndex, totalChunks |-> totalChunks, attempt |-> attempt,
   maxAttempts |-> maxAttempts, status |-> status]

NoEvent == ProgressEvent(0, 0, 0, 0, "none")

\* ---------------------------------------------------------------- Validator

\* JavaScript values of the fields of an extracted item.
JUndefined == [t |-> "undefined", s |-> "", b |-> FALSE, n |-> 0]
JString(str) == [t |-> "string", s |-> str, b |-> FALSE, n |-> 0]
JBoolean(bool) == [t |-> "boolean", s |-> "", b |-> bool, n |-> 0]
JNumber(num) == [t |-> "number", s |-> "", b |-> FALSE, n |-> num]

\* !!v
Truthy(v) ==
  CASE v.t = "string" -> v.s # ""
    [] v.t = "boolean" -> v.b
    [] v.t = "number" -> v.n # 0
    [] OTHER -> FALSE

\* String.prototype.trim on the strings of the model (" " is blank).
Trim(str) == IF str = " " THEN "" ELSE str

\* !v || typeof v !== 'string' || v.trim() === ''
MissingString(v) == ~Truthy(v) \/ v.t # "string" \/ Trim(v.s) = ""

\* const validTypes
validTypes ==
  {"textArea", "textField", "date", "time", "dateTime", "dropdown", "checkbox",
   "radio", "multiImage", "signature", "header"}

\* validTypes.includes(v)
IsValidType(v) == v.t = "string" /\ v.s \in validTypes

\* The state of the forEach body: the validation object and the item.
\* Each step below is one statement of the body on item number n.
CheckQuestion(st, n) ==
  IF MissingString(st.item.question)
  THEN [st EXCEPT !.isValid = FALSE,
                  !.errors = Append(@, <<n, "Question is required">>)]
  ELSE st

\* An item of unknown type rejected: an error, and the type left as it is.
CheckTypeReject(st, n) ==
  IF ~Truthy(st.item.type) \/ ~IsValidType(st.item.type)
  THEN [st EXCEPT !.isValid = FALSE,
                  !.errors = Append(@, <<n, "Invalid type">>)]
  ELSE st

CheckType(st, n) ==
  IF ~Truthy(st.item.type) \/ ~IsValidType(st.item.type)
  THEN [st EXCEPT !.warnings = Append(@, <<n, "Invalid type, defaulting to textField">>),
                  !.item.type = JString("textField")]
  ELSE st

\* A required field that is no boolean warned about and left as it is.
CheckRequiredWarnOnly(st, n) ==
  IF st.item.required.t # "boolean"
  THEN [st EXCEPT !.warnings = Append(@, <<n, "Required field converted to boolean">>)]
  ELSE st

\* typeof item.required !== 'boolean': a warning, and Boolean(item.required).
CheckRequired(st, n) ==
  IF st.item.required.t # "boolean"
  THEN [st EXCEPT !.warnings = Append(@, <<n, "Required field converted to boolean">>),
                  !.item.required = JBoolean(Truthy(@))]
  ELSE st

FixDependencyFields(st, n) ==
  [st EXCEPT
     !.item.isDependent = IF @.t # "boolean" THEN JBoolean(Truthy(@)) ELSE @,
     !.item.dependentOn = IF ~Truthy(@) THEN JString("") ELSE @,
     !.item.dependentOptions = IF ~Truthy(@) THEN JString("") ELSE @]

\* The options of the items of the model are strings or missing.
CheckOptions(st, n) ==
  IF /\ st.item.type.s \in {"dropdown", "radio", "checkbox"}
     /\ (~Truthy(st.item.options) \/ Trim(st.item.options.s) = "")
  THEN [st EXCEPT !.warnings = Append(@, <<n, "should have options">>)]
  ELSE st

CheckDependent(st, n) ==
  IF ~Truthy(st.item.isDependent) THEN st
  ELSE LET w1 == IF MissingString(st.item.dependentOn)
                 THEN <<<<n, "Missing parent dependent question">>>> ELSE <<>>
           w2 == IF MissingString(st.item.dependentOptions)
                 THEN <<<<n, "Missing parent dependent options">>>> ELSE <<>>
       IN [st EXCEPT !.warnings = @ \o w1 \o w2]

EnsureId(st, n) ==
  IF ~Truthy(st.item.id) THEN [st EXCEPT !.item.id = JNumber(n)] ELSE st

\* The forEach body on item number n.
validateItem(st, n) ==
  EnsureId(CheckDependent(CheckOptions(FixDependencyFields(CheckRequired(
    CheckType(CheckQuestion(st, n), n), n), n), n), n), n)

\* checklist.forEach(...) from item n on; `items` holds the items as they
\* are now, the first n - 1 already fixed.
RECURSIVE validateLoop(_, _, _)
validateLoop(validation, items, n) ==
  IF n > Len(items) THEN [validation |-> validation, items |-> items]
  ELSE LET st == validateItem([isValid |-> validation.isValid,
                               errors |-> validation.errors,
                               warnings |-> validation.warnings,
                               item |-> items[n]], n)
       IN validateLoop([isValid |-> st.isValid, errors |-> st.errors,
                        warnings |-> st.warnings],
                       [items EXCEPT ![n] = st.item], n + 1)

\* validateChecklist(checklist): the returned validation, and the checklist
\* object as the call leaves it.
validateChecklist(checklist) ==
  IF checklist.t # "array"
  THEN [validation |-> [isValid |-> FALSE,
                        errors |-> <<<<0, "Checklist must be an array">>>>,
                        warnings |-> <<>>],
        checklist |-> checklist]
  ELSE IF Len(checklist.items) = 0
  THEN [validation |-> [isValid |-> TRUE, errors |-> <<>>,
                        warnings |-> <<<<0, "Checklist is empty">>>>],
        checklist |-> checklist]
  ELSE LET done == validateLoop([isValid |-> TRUE, errors |-> <<>>, warnings |-> <<>>],
                                checklist.items, 1)
       IN [validation |-> done.validation, checklist |-> JArray(done.items)]

\* ------------------------------------------------------------------- state

VARIABLES
  \* createChunks applied to an input
  ckParsed,     \* the parsedData argument
  ckMax,        \* the maxCharsPerChunk argument
  ckChunks,     \* the returned chunk list
  ckPc,         \* "call" before createChunks is applied, "done" after it
  \* mergeChunkResults applied to an input
  mgArg,        \* the chunk results as passed by the caller
  mgArray,      \* the caller's array object (sorted in place by the call)
  mgResult,     \* what the calls made so far returned: {merged, failed, stats}
  mgPc,         \* "call" before mergeChunkResults is applied, "done" after
                \* the first call, "twice" after the second
  \* the AIService singleton
  env,          \* process.env
  provider,     \* this.provider
  anthropic,    \* this.anthropic is set
  openai,       \* this.openai is set
  \* one extractChecklist call
  excelText,    \* the argument: a sequence of lines
  pc,           \* position of the call
  mode,         \* "none", "single" (no chunking) or "chunked"
  chunks,       \* const chunks
  i,            \* loop variable of the chunk loop
  chunkResults, \* const chunkResults
  attempt,      \* loop variable of processChunkWithRetry
  lastError,    \* let lastError
  result,       \* the array processSingleChunk returned
  error,        \* the Error processSingleChunk threw
  inflight,     \* provider requests issued and not yet settled
  delay,        \* the backoff timer being awaited, in ms (0: none)
  progress,     \* the last event passed to progressCallback
  execLog,      \* outcomes of the processSingleChunk calls made for the
                \* chunk being processed ("call" while one is pending)
  calls,        \* the provider calls of the processSingleChunk invocation
                \* entered last, each with its outcome
  sink,         \* the progressCallback argument: "reliable" (it returns) or
                \* "throwing" (any of its invocations may throw)
  events,       \* the events passed to progressCallback for the chunk being
                \* processed (single-unit path: for the call), in order
  delays,       \* the backoff delays awaited for the chunk being processed
  served,       \* the item lists the providers returned to this call, one per
                \* successful processSingleChunk invocation, in order
  mergeResult,  \* const mergeResult, in a 0/1-element list
  returned,     \* the value extractChecklist returned
  thrown,       \* the Error extractChecklist threw
  \* the progress stream of routes/checklist.js
  progressStreams, \* the Map clientId -> response: its keys, in insertion order
  received,     \* per client id, the messages written to its response
  nextClient,   \* the number of client ids handed out so far
  published,    \* the number of broadcastProgress calls made so far
  lastBroadcast, \* the broadcastProgress call made last, in a 0/1-element
                \* list: the clients registered when it began, those whose
                \* write threw, the message, and how the call ended
  origins,      \* for each broadcastProgress call so far, the request that
                \* made it
  \* validateChecklist applied to an input
  vlInput,      \* the checklist argument as it was passed
  vlChecklist,  \* the caller's checklist object (its items are fixed in place)
  vlResult,     \* the returned validation, in a 0/1-element list
  vlPc,         \* "call" before validateChecklist is applied, "done" after it
  \* a provider's response handled by extractWithClaude / extractWithOpenAI
  psProvider,   \* "claude" or "openai": the method that handles the response
  psRaw,        \* what the provider call came back with
  psResult,     \* what the method returned or threw, in a 0/1-element list
  psPc,         \* "call" before the response is handled, "done" after it
  \* a second extractChecklist call on the same AIService
  running,      \* 1 or 2: the call whose state the per-call variables hold
  parked,       \* the state of the other call, suspended, not yet made or
                \* over; <<>> when there is no other call
  \* selectModelForChunk applied to an input
  slSize,       \* the chunkSize argument
  slProvider,   \* the provider argument
  slModel,      \* the returned model, in a 0/1-element list
  slPc,         \* "call" before selectModelForChunk is applied, "done" after it
  \* one POST /extract-checklist request of routes/checklist.js
  rqPc,         \* where the handler is
  rqFile,       \* whether the uploaded temporary file is on disk
  rqText,       \* the text extractExcelText reads from the file
  rqAnswer,     \* the item list the provider answers a unit of this text with
  rqSent,       \* the progress data the request has passed to
                \* broadcastProgress, in order
  rqTotal,      \* chunks.length of the extractChecklist call (0 before it)
  rqIndex,      \* the loop variable i of extractChecklist
  rqAttempt,    \* the loop variable attempt of processChunkWithRetry
  rqList,       \* the items of the chunks that succeeded so far
  rqResponse    \* the response sent: <<status, code>>, or <<>> before it

ckVars == <<ckParsed, ckMax, ckChunks, ckPc>>

mgVars == <<mgArg, mgArray, mgResult, mgPc>>

svcVars == <<env, provider, anthropic, openai>>

callVars == <<excelText, pc, mode, chunks, i, chunkResults, attempt, lastError,
              result, error, inflight, delay, progress, execLog, calls, sink,
              events, delays, served, mergeResult, returned, thrown>>

bcVars == <<progressStreams, received, nextClient, published, lastBroadcast, origins>>

vlVars == <<vlInput, vlChecklist, vlResult, vlPc>>

psVars == <<psProvider, psRaw, psResult, psPc>>

twVars == <<running, parked>>

slVars == <<slSize, slProvider, slModel, slPc>>

rqVars == <<rqPc, rqFile, rqText, rqAnswer, rqSent, rqTotal, rqIndex, rqAttempt, rqList,
           rqResponse>>

vars == <<ckVars, mgVars, svcVars, callVars, bcVars, vlVars, psVars, twVars, slVars, rqVars>>

\* The parts of the state a specification does not use.
IdleChunker ==
  /\ ckParsed = [header |-> Line(0, 0), dataRows |-> <<>>, totalRows |-> 0]
  /\ ckMax = 0
  /\ ckChunks = <<>>
  /\ ckPc = "idle"

IdleMerger ==
  /\ mgArg = <<>>
  /\ mgArray = <<>>
  /\ mgResult = <<>>
  /\ mgPc = "idle"

IdleValidator ==
  /\ vlInput = <<>>
  /\ vlChecklist = <<>>
  /\ vlResult = <<>>
  /\ vlPc = "idle"

IdleParser ==
  /\ psProvider = ""
  /\ psRaw = <<>>
  /\ psResult = <<>>
  /\ psPc = "idle"

IdleSecondCall ==
  /\ running = 1
  /\ parked = <<>>

IdleSelector ==
  /\ slSize = 0
  /\ slProvider = ""
  /\ slModel = <<>>
  /\ slPc = "idle"

IdleRequest ==
  /\ rqPc = "idle"
  /\ rqFile = FALSE
  /\ rqText = <<>>
  /\ rqAnswer = <<>>
  /\ rqSent = <<>>
  /\ rqTotal = 0
  /\ rqIndex = 0
  /\ rqAttempt = 0
  /\ rqList = <<>>
  /\ rqResponse = <<>>

IdleBroadcaster ==
  /\ progressStreams = <<>>
  /\ received = <<>>
  /\ nextClient = 0
  /\ published = 0
  /\ lastBroadcast = <<>>
  /\ origins = <<>>

\* new AIService(): constructor and initializeClients under environment e.
Constructed(e) ==
  /\ env = e
  /\ provider = OrElse(e.AI_PROVIDER, "claude")
  /\ openai = (shouldUseOpenAI(OrElse(e.AI_PROVIDER, "claude")) /\ e.OPENAI_API_KEY)
  /\ anthropic = (shouldUseClaude(OrElse(e.AI_PROVIDER, "claude")) /\ e.ANTHROPIC_API_KEY)

DefaultEnvironment ==
  [AI_PROVIDER |-> "", OPENAI_API_KEY |-> FALSE, ANTHROPIC_API_KEY |-> TRUE,
   CLAUDE_MODEL |-> "", OPENAI_MODEL |-> ""]

\* No extractChecklist call has been made; its arguments will be text and
\* callback.
NoCallWith(text, callback) ==
  /\ excelText = text
  /\ sink = callback
  /\ events = <<>>
  /\ delays = <<>>
  /\ served = <<>>
  /\ mode = "none"
  /\ chunks = <<>>
  /\ i = 0
  /\ chunkResults = <<>>
  /\ attempt = 0
  /\ lastError = NoError
  /\ result = <<>>
  /\ error = NoError
  /\ inflight = <<>>
  /\ delay = 0
  /\ progress = NoEvent
  /\ execLog = <<>>
  /\ calls = <<>>
  /\ mergeResult = <<>>
  /\ returned = <<>>
  /\ thrown = NoError

\* The call is made with the callback of the route, which returns normally.
NoCall(text) == NoCallWith(text, "reliable")

\* ------------------------------------------- the Chunker applied to inputs

ChunkInputs ==
  {[header |-> Line(0, h), dataRows |-> RowsOf(lens), totalRows |-> Len(lens)] :
     h \in HeaderLens, lens \in SeqUpTo(RowLens, MaxRows)}

\* Values of the maxCharsPerChunk argument: the limits of two models, and a
\* limit below the size of a single row.
ChunkLimits == {maxCharsPerChunk["claude-3-haiku-20240307"],
                maxCharsPerChunk["claude-3-sonnet-20240229"],
                500}

InitChunks ==
  /\ ckParsed \in ChunkInputs
  /\ ckMax \in ChunkLimits
  /\ ckChunks = <<>>
  /\ ckPc = "call"
  /\ IdleMerger
  /\ Constructed(DefaultEnvironment)
  /\ NoCall(<<>>)
  /\ pc = "idle"
  /\ IdleBroadcaster
  /\ IdleValidator
  /\ IdleParser
  /\ IdleSecondCall
  /\ IdleSelector
  /\ IdleRequest

CreateChunksCall ==
  /\ ckPc = "call"
  /\ ckChunks' = createChunks(ckParsed, ckMax)
  /\ ckPc' = "done"
  /\ UNCHANGED <<ckParsed, ckMax, mgVars, svcVars, callVars, bcVars, vlVars, psVars, twVars, slVars, rqVars>>

NextChunks == CreateChunksCall

SpecChunks == InitChunks /\ [][NextChunks]_vars

\* -------------------------------------------- the extractChecklist pipeline

\* The inputs of the pipeline: a header line and n rows of one length.
UniformText(n, len) == <<Line(0, 20)>> \o [k \in 1..n |-> Line(k, len)]

\* Row lengths short enough for the row-count cutoff to be met within the
\* size limit.
ShortRowLens == {40}

\* Inputs at the row-count cutoff and one row above it.
ThresholdTexts ==
  {UniformText(n, len) : n \in {SmallDatasetRows, SmallDatasetRows + 1},
                         len \in ShortRowLens}

ExcelTexts ==
  {<<>>, <<Line(-1, 3)>>}
  \cup {UniformText(n, len) : n \in 0..MaxRows, len \in RowLens}
  \cup ThresholdTexts

\* The cutoff of the earlier extractChecklist definition: 20 rows.
IsSmallDatasetEarlier(estimatedSize, maxCharsForProvider, totalRows) ==
  estimatedSize <= maxCharsForProvider /\ totalRows <= 20

\* estimatedSize <= maxCharsForProvider && parsedData.totalRows <= 50
IsSmallDataset(estimatedSize, maxCharsForProvider, totalRows) ==
  estimatedSize <= maxCharsForProvider /\ totalRows <= SmallDatasetRows

Init ==
  /\ IdleChunker
  /\ IdleMerger
  /\ \E e \in Environments : Constructed(e)
  /\ \E text \in ExcelTexts : NoCall(text)
  /\ pc = "start"
  /\ IdleBroadcaster
  /\ IdleValidator
  /\ IdleParser
  /\ IdleSecondCall
  /\ IdleSelector
  /\ IdleRequest

\* The Error a throwing progressCallback throws.
SinkError == <<"progress callback failed">>

\* Whether an invocation of the callback throws: the possible answers.
CallbackThrows(callback) == IF callback = "throwing" THEN BOOLEAN ELSE {FALSE}

\* extractChecklist up to the choice of path (lines 660-707).
ExtractStart ==
  /\ pc = "start"
  /\ IF IsEmptyText(excelText)
     THEN /\ thrown' = <<"Excel text is empty or invalid">>
          /\ pc' = "threw"
          /\ UNCHANGED <<mode, chunks, progress, events>>
     ELSE LET parsed == parseExcelToRows(excelText) IN
          IF ~parsed.ok
          THEN /\ thrown' = parsed.error
               /\ pc' = "threw"
               /\ UNCHANGED <<mode, chunks, progress, events>>
          ELSE LET parsedData == parsed.value
                   estimatedSize ==
                     estimateChunkSize(parsedData.header, parsedData.dataRows)
                   maxCharsForProvider ==
                     getMaxCharsForCurrentProvider(env, provider, anthropic, openai)
               IN IF IsSmallDataset(estimatedSize, maxCharsForProvider,
                                    parsedData.totalRows)
                  THEN /\ mode' = "single"
                       /\ progress' = ProgressEvent(0, 1, 1, 1, "Processing single dataset")
                       /\ events' = <<ProgressEvent(0, 1, 1, 1, "Processing single dataset")>>
                       /\ \E throws \in CallbackThrows(sink) :
                            IF throws
                            THEN /\ thrown' = SinkError
                                 /\ pc' = "threw"
                            ELSE /\ pc' = "dispatch"
                                 /\ UNCHANGED thrown
                       /\ UNCHANGED chunks
                  ELSE /\ mode' = "chunked"
                       /\ chunks' = createChunks(parsedData, maxCharsForProvider)
                       /\ pc' = "chunkLoop"
                       /\ UNCHANGED <<progress, events, thrown>>
  /\ UNCHANGED <<sink, served, delays, excelText, i, chunkResults, attempt, lastError, result,
                 error, inflight, delay, execLog, calls, mergeResult, returned>>
  /\ UNCHANGED <<ckVars, mgVars, svcVars, bcVars, vlVars, psVars, twVars, slVars, rqVars>>

\* The chunk loop goes on without waiting for the pending chunk.
AtLoopHeadNoAwait(at) == at \in {"chunkLoop", "awaitClaude", "awaitOpenAI", "backoff"}

\* for (let i = 0; ...) { const result = await processChunkWithRetry(...) }:
\* the loop is at its head only when the previous chunk's call has returned.
AtLoopHead(at) == at = "chunkLoop"

\* The head of the chunk loop: enter processChunkWithRetry for chunks[i],
\* or leave the loop.
ChunkLoop ==
  /\ AtLoopHead(pc)
  /\ IF i < Len(chunks)
     THEN /\ attempt' = 1
          /\ lastError' = NoError
          /\ execLog' = <<>>
          /\ events' = <<>>
          /\ delays' = <<>>
          /\ pc' = "attempt"
     ELSE /\ pc' = "merge"
          /\ UNCHANGED <<attempt, lastError, execLog, events, delays>>
  /\ UNCHANGED <<sink, served, calls, excelText, mode, chunks, i, chunkResults, result, error,
                 inflight, delay, progress, mergeResult, returned, thrown>>
  /\ UNCHANGED <<ckVars, mgVars, svcVars, bcVars, vlVars, psVars, twVars, slVars, rqVars>>

\* processChunkWithRetry, try block up to the processSingleChunk call.
AttemptBegin ==
  /\ pc = "attempt"
  /\ progress' = ProgressEvent(i, Len(chunks), attempt, maxRetries + 1, "processing")
  /\ events' = Append(events, ProgressEvent(i, Len(chunks), attempt, maxRetries + 1,
                                            "processing"))
  /\ \E throws \in CallbackThrows(sink) :
       IF throws
       THEN /\ error' = SinkError
            /\ pc' = "failed"
       ELSE /\ pc' = "dispatch"
            /\ UNCHANGED error
  /\ UNCHANGED <<sink, served, delays, calls, excelText, mode, chunks, i, chunkResults, attempt,
                 lastError, result, inflight, delay, execLog, mergeResult, returned,
                 thrown>>
  /\ UNCHANGED <<ckVars, mgVars, svcVars, bcVars, vlVars, psVars, twVars, slVars, rqVars>>

\* The estimatedSize argument of the processSingleChunk call being made.
CallSize ==
  IF mode = "chunked" THEN chunks[i + 1].estimatedSize
  ELSE LET parsedData == parseExcelToRows(excelText).value
       IN estimateChunkSize(parsedData.header, parsedData.dataRows)

Request(prov) == [provider |-> prov, model |-> selectModelForChunk(CallSize, prov)]

\* A provider call as recorded in `calls`.
Call(prov, outcome) == [provider |-> prov, outcome |-> outcome]

\* The pending call, the last of `calls`, settled with an outcome.
Settled(outcome) == [calls EXCEPT ![Len(calls)].outcome = outcome]

\* The fallback when the Claude call fails is taken whatever the provider.
FallsBackAlways(prov) == TRUE

\* catch (error) { if (this.provider !== 'both') throw error; }: the failed
\* Claude call is followed by the OpenAI section only under 'both'.
FallsBack(prov) == prov = "both"

\* processSingleChunk from its OpenAI section on (lines 521-527), after the
\* provider calls `made` so far.
OpenAISection(made) ==
  IF shouldUseOpenAI(provider) /\ openai
  THEN /\ inflight' = Append(inflight, Request("openai"))
       /\ calls' = Append(made, Call("openai", "pending"))
       /\ pc' = "awaitOpenAI"
       /\ error' = NoError
  ELSE /\ error' = NoProviderError
       /\ calls' = made
       /\ pc' = "failed"
       /\ UNCHANGED inflight

\* processSingleChunk is entered (lines 507-512 or 521-527).
ProcessSingleChunk ==
  /\ pc = "dispatch"
  /\ execLog' = Append(execLog, "call")
  /\ IF shouldUseClaude(provider) /\ anthropic
     THEN /\ inflight' = Append(inflight, Request("claude"))
          /\ calls' = <<Call("claude", "pending")>>
          /\ pc' = "awaitClaude"
          /\ error' = NoError
     ELSE OpenAISection(<<>>)
  /\ UNCHANGED <<sink, served, events, delays, excelText, mode, chunks, i, chunkResults, attempt, lastError, result,
                 delay, progress, mergeResult, returned, thrown>>
  /\ UNCHANGED <<ckVars, mgVars, svcVars, bcVars, vlVars, psVars, twVars, slVars, rqVars>>

\* The Claude request settles (lines 512-518, 551-566).
ClaudeReturn ==
  /\ pc = "awaitClaude"
  /\ \E raw \in RawResponses :
       LET r == extractWithClaude(raw)
           settled == SubSeq(inflight, 1, Len(inflight) - 1)
       IN
       IF r.ok
       THEN /\ result' = r.value
            /\ pc' = "succeeded"
            /\ inflight' = settled
            /\ calls' = Settled("ok")
            /\ UNCHANGED error
       ELSE IF ~FallsBack(provider)
       THEN /\ error' = r.error
            /\ pc' = "failed"
            /\ inflight' = settled
            /\ calls' = Settled("fail")
            /\ UNCHANGED result
       ELSE /\ IF shouldUseOpenAI(provider) /\ openai
               THEN /\ inflight' = Append(settled, Request("openai"))
                    /\ calls' = Append(Settled("fail"), Call("openai", "pending"))
                    /\ pc' = "awaitOpenAI"
                    /\ error' = NoError
               ELSE /\ error' = NoProviderError
                    /\ calls' = Settled("fail")
                    /\ pc' = "failed"
                    /\ inflight' = settled
            /\ UNCHANGED result
  /\ UNCHANGED <<sink, served, events, delays, excelText, mode, chunks, i, chunkResults, attempt, lastError, delay,
                 progress, execLog, mergeResult, returned, thrown>>
  /\ UNCHANGED <<ckVars, mgVars, svcVars, bcVars, vlVars, psVars, twVars, slVars, rqVars>>

\* The OpenAI request settles (lines 524, 594-610).
OpenAIReturn ==
  /\ pc = "awaitOpenAI"
  /\ inflight' = SubSeq(inflight, 1, Len(inflight) - 1)
  /\ \E raw \in RawResponses :
       LET r == extractWithOpenAI(raw) IN
       IF r.ok
       THEN /\ result' = r.value
            /\ calls' = Settled("ok")
            /\ pc' = "succeeded"
            /\ UNCHANGED error
       ELSE /\ error' = r.error
            /\ calls' = Settled("fail")
            /\ pc' = "failed"
            /\ UNCHANGED result
  /\ UNCHANGED <<sink, served, events, delays, excelText, mode, chunks, i, chunkResults, attempt, lastError, delay,
                 progress, execLog, mergeResult, returned, thrown>>
  /\ UNCHANGED <<ckVars, mgVars, svcVars, bcVars, vlVars, psVars, twVars, slVars, rqVars>>

\* The pending entry of execLog, if there is one, set to the outcome of the
\* call.
Logged(outcome) ==
  IF execLog # <<>> /\ execLog[Len(execLog)] = "call"
  THEN [execLog EXCEPT ![Len(execLog)] = outcome]
  ELSE execLog

\* Single-unit path: ids assigned, list returned (lines 692-700).
SingleSucceeded ==
  /\ pc = "succeeded"
  /\ mode = "single"
  /\ returned' = AssignIndexIds(result)
  /\ execLog' = Logged("ok")
  /\ served' = Append(served, result)
  /\ pc' = "returned"
  /\ UNCHANGED <<sink, events, delays, calls, excelText, mode, chunks, i, chunkResults, attempt, lastError, result,
                 error, inflight, delay, progress, mergeResult, thrown>>
  /\ UNCHANGED <<ckVars, mgVars, svcVars, bcVars, vlVars, psVars, twVars, slVars, rqVars>>

\* processChunkWithRetry after a successful attempt (lines 335-355), and the
\* push of its result by the chunk loop (line 712).
AttemptSucceeded ==
  /\ pc = "succeeded"
  /\ mode = "chunked"
  /\ progress' = ProgressEvent(i, Len(chunks), attempt, maxRetries + 1, "completed")
  /\ events' = Append(events, ProgressEvent(i, Len(chunks), attempt, maxRetries + 1,
                                            "completed"))
  /\ execLog' = Logged("ok")
  /\ \E throws \in CallbackThrows(sink) :
       IF throws
       THEN /\ error' = SinkError
            /\ pc' = "failed"
            /\ UNCHANGED <<chunkResults, i, served>>
       ELSE /\ chunkResults' = Append(chunkResults, SuccessResult(chunks[i + 1], i, result))
            /\ served' = Append(served, result)
            /\ i' = i + 1
            /\ pc' = "chunkLoop"
            /\ UNCHANGED error
  /\ UNCHANGED <<sink, delays, calls, excelText, mode, chunks, attempt, lastError, result,
                 inflight, delay, mergeResult, returned, thrown>>
  /\ UNCHANGED <<ckVars, mgVars, svcVars, bcVars, vlVars, psVars, twVars, slVars, rqVars>>

\* The error leaves extractChecklist (single-unit path: lines 730-733).
CallThrows ==
  /\ pc = "failed"
  /\ FailureDisposition(mode, attempt) = "throw"
  /\ thrown' = error
  /\ execLog' = Logged("fail")
  /\ pc' = "threw"
  /\ UNCHANGED <<sink, served, events, delays, calls, excelText, mode, chunks, i, chunkResults, attempt, lastError, result,
                 error, inflight, delay, progress, mergeResult, returned>>
  /\ UNCHANGED <<ckVars, mgVars, svcVars, bcVars, vlVars, psVars, twVars, slVars, rqVars>>

\* catch block of processChunkWithRetry with attempts left (lines 357-376).
AttemptFailedRetry ==
  /\ pc = "failed"
  /\ FailureDisposition(mode, attempt) = "backoff"
  /\ lastError' = error
  /\ execLog' = Logged("fail")
  /\ progress' = ProgressEvent(i, Len(chunks), attempt, maxRetries + 1, "retrying")
  /\ events' = Append(events, ProgressEvent(i, Len(chunks), attempt, maxRetries + 1,
                                            "retrying"))
  /\ \E throws \in CallbackThrows(sink) :
       IF throws
       THEN /\ thrown' = SinkError
            /\ pc' = "threw"
            /\ UNCHANGED <<delay, delays>>
       ELSE /\ delay' = BackoffDelay(attempt)
            /\ delays' = Append(delays, BackoffDelay(attempt))
            /\ pc' = "backoff"
            /\ UNCHANGED thrown
  /\ UNCHANGED <<sink, served, calls, excelText, mode, chunks, i, chunkResults, attempt, result,
                 error, inflight, mergeResult, returned>>
  /\ UNCHANGED <<ckVars, mgVars, svcVars, bcVars, vlVars, psVars, twVars, slVars, rqVars>>

\* The backoff timer fires; the loop goes to the next attempt (line 317).
BackoffElapsed ==
  /\ pc = "backoff"
  /\ delay' = 0
  /\ attempt' = attempt + 1
  /\ pc' = "attempt"
  /\ UNCHANGED <<sink, served, events, delays, calls, excelText, mode, chunks, i, chunkResults, lastError, result, error,
                 inflight, progress, execLog, mergeResult, returned, thrown>>
  /\ UNCHANGED <<ckVars, mgVars, svcVars, bcVars, vlVars, psVars, twVars, slVars, rqVars>>

\* catch block on the last attempt, loop exit, failure result (lines 357-401),
\* and the push of the result by the chunk loop (line 712).
AttemptFailedExhausted ==
  /\ pc = "failed"
  /\ FailureDisposition(mode, attempt) = "exhausted"
  /\ lastError' = error
  /\ execLog' = Logged("fail")
  /\ attempt' = attempt + 1
  /\ progress' = ProgressEvent(i, Len(chunks), maxRetries + 1, maxRetries + 1, "failed")
  /\ events' = Append(events, ProgressEvent(i, Len(chunks), maxRetries + 1,
                                            maxRetries + 1, "failed"))
  /\ \E throws \in CallbackThrows(sink) :
       IF throws
       THEN /\ thrown' = SinkError
            /\ pc' = "threw"
            /\ UNCHANGED <<chunkResults, i>>
       ELSE /\ chunkResults' = Append(chunkResults, FailureResult(chunks[i + 1], i, error))
            /\ i' = i + 1
            /\ pc' = "chunkLoop"
            /\ UNCHANGED thrown
  /\ UNCHANGED <<sink, served, delays, calls, excelText, mode, chunks, result, error, inflight,
                 delay, mergeResult, returned>>
  /\ UNCHANGED <<ckVars, mgVars, svcVars, bcVars, vlVars, psVars, twVars, slVars, rqVars>>

\* Merge and return (lines 716-728); the sort inside mergeChunkResults
\* reorders chunkResults itself.
MergeAndReturn ==
  /\ pc = "merge"
  /\ mergeResult' = <<mergeChunkResults(chunkResults)>>
  /\ chunkResults' = ArrayAfterMerge(chunkResults)
  /\ returned' = mergeChunkResults(chunkResults).merged
  /\ pc' = "returned"
  /\ UNCHANGED <<sink, served, events, delays, calls, excelText, mode, chunks, i, attempt, lastError, result, error,
                 inflight, delay, progress, execLog, thrown>>
  /\ UNCHANGED <<ckVars, mgVars, svcVars, bcVars, vlVars, psVars, twVars, slVars, rqVars>>

Next ==
  \/ ExtractStart
  \/ ChunkLoop
  \/ AttemptBegin
  \/ ProcessSingleChunk
  \/ ClaudeReturn
  \/ OpenAIReturn
  \/ SingleSucceeded
  \/ AttemptSucceeded
  \/ CallThrows
  \/ AttemptFailedRetry
  \/ BackoffElapsed
  \/ AttemptFailedExhausted
  \/ MergeAndReturn

Spec == Init /\ [][Next]_vars

\* The same call with a progress callback that may throw on any invocation,
\* for environments where both clients exist.
SinkEnvironments ==
  {e \in Environments : /\ e.AI_PROVIDER \in {"claude", "both"}
                        /\ e.OPENAI_API_KEY
                        /\ e.ANTHROPIC_API_KEY
                        /\ e.CLAUDE_MODEL = ""}

SinkTexts == {UniformText(n, len) : n \in {1, MaxRows}, len \in RowLens}

Callbacks == {"reliable", "throwing"}

InitSink ==
  /\ IdleChunker
  /\ IdleMerger
  /\ \E e \in SinkEnvironments : Constructed(e)
  /\ \E text \in SinkTexts, callback \in Callbacks : NoCallWith(text, callback)
  /\ pc = "start"
  /\ IdleBroadcaster
  /\ IdleValidator
  /\ IdleParser
  /\ IdleSecondCall
  /\ IdleSelector
  /\ IdleRequest

SpecSink == InitSink /\ [][Next]_vars

\* The call when every pending provider request settles, every backoff
\* timer fires and the code between two awaits runs on.
CallProceeds ==
  \/ ChunkLoop
  \/ AttemptBegin
  \/ ProcessSingleChunk
  \/ ClaudeReturn
  \/ OpenAIReturn
  \/ SingleSucceeded
  \/ AttemptSucceeded
  \/ CallThrows
  \/ AttemptFailedRetry
  \/ BackoffElapsed
  \/ AttemptFailedExhausted
  \/ MergeAndReturn

\* Once the call is made (making it is up to the caller) the event loop
\* runs every step that is ready: a pending provider request settles, a
\* backoff timer fires, the code between two awaits runs on.
Fairness == WF_vars(CallProceeds)

\* Both providers in use; one input for each path.
LiveEnvironments == {e \in SinkEnvironments : e.AI_PROVIDER = "both"}

LiveTexts == {UniformText(1, 400), UniformText(MaxRows, 700)}

InitLive ==
  /\ IdleChunker
  /\ IdleMerger
  /\ \E e \in LiveEnvironments : Constructed(e)
  /\ \E text \in LiveTexts : NoCall(text)
  /\ pc = "start"
  /\ IdleBroadcaster
  /\ IdleValidator
  /\ IdleParser
  /\ IdleSecondCall
  /\ IdleSelector
  /\ IdleRequest

SpecLive == InitLive /\ [][Next]_vars /\ Fairness

\* --------------------------------- two extractChecklist calls on one service

\* The per-call state: the parameters and locals of extractChecklist and of
\* the processChunkWithRetry and processSingleChunk calls it awaits.
CallState ==
  [excelText |-> excelText,
   pc |-> pc,
   mode |-> mode,
   chunks |-> chunks,
   i |-> i,
   chunkResults |-> chunkResults,
   attempt |-> attempt,
   lastError |-> lastError,
   result |-> result,
   error |-> error,
   inflight |-> inflight,
   delay |-> delay,
   progress |-> progress,
   execLog |-> execLog,
   calls |-> calls,
   sink |-> sink,
   events |-> events,
   delays |-> delays,
   served |-> served,
   mergeResult |-> mergeResult,
   returned |-> returned,
   thrown |-> thrown]

\* The state of a call that has not been made yet.
FreshCall(text) ==
  [excelText |-> text, pc |-> "start", mode |-> "none", chunks |-> <<>>, i |-> 0,
   chunkResults |-> <<>>, attempt |-> 0, lastError |-> NoError, result |-> <<>>,
   error |-> NoError, inflight |-> <<>>, delay |-> 0, progress |-> NoEvent,
   execLog |-> <<>>, calls |-> <<>>, sink |-> "reliable", events |-> <<>>,
   delays |-> <<>>, served |-> <<>>, mergeResult |-> <<>>, returned |-> <<>>,
   thrown |-> NoError]

\* The result list kept on the service object: the resuming call finds the
\* list as the other call left it.
OwnedSharingResults(saved, current) ==
  [saved EXCEPT !.chunkResults = current.chunkResults]

\* What a call finds when it resumes, `saved` being its state when it was
\* suspended and `current` the state of the call that ran meanwhile: all of
\* it is declared inside the methods (const chunks, const chunkResults, let
\* lastError, ...), nothing is kept on `this`.
Owned(saved, current) == saved

Resume(s) ==
  /\ excelText' = s.excelText
  /\ pc' = s.pc
  /\ mode' = s.mode
  /\ chunks' = s.chunks
  /\ i' = s.i
  /\ chunkResults' = s.chunkResults
  /\ attempt' = s.attempt
  /\ lastError' = s.lastError
  /\ result' = s.result
  /\ error' = s.error
  /\ inflight' = s.inflight
  /\ delay' = s.delay
  /\ progress' = s.progress
  /\ execLog' = s.execLog
  /\ calls' = s.calls
  /\ sink' = s.sink
  /\ events' = s.events
  /\ delays' = s.delays
  /\ served' = s.served
  /\ mergeResult' = s.mergeResult
  /\ returned' = s.returned
  /\ thrown' = s.thrown

\* Where a call can be when another one runs: awaiting a provider request
\* or a backoff timer, or over.
Suspended(p) == p \in {"awaitClaude", "awaitOpenAI", "backoff", "returned", "threw"}

\* The running call is suspended or over and the other call runs: it is
\* made, if it has not been made yet, or it resumes.
Switch ==
  /\ parked # <<>>
  /\ Suspended(pc)
  /\ parked' = CallState
  /\ Resume(Owned(parked, CallState))
  /\ running' = 3 - running
  /\ UNCHANGED <<ckVars, mgVars, svcVars, bcVars, vlVars, psVars, slVars, rqVars>>

\* A single-unit input and an input split into two chunks.
TwoTexts == {UniformText(1, 400), UniformText(minRowsPerChunk + 1, 700)}

InitTwo ==
  /\ IdleChunker
  /\ IdleMerger
  /\ \E e \in LiveEnvironments : Constructed(e)
  /\ \E text \in TwoTexts : NoCall(text)
  /\ pc = "start"
  /\ running = 1
  /\ parked \in {FreshCall(text) : text \in TwoTexts}
  /\ IdleSelector
  /\ IdleRequest
  /\ IdleBroadcaster
  /\ IdleValidator
  /\ IdleParser

NextTwo ==
  \/ Next
  \/ Switch

SpecTwo == InitTwo /\ [][NextTwo]_vars

\* ------------------------------ the response handling applied to responses

\* What a response can hold under the key 'checklist' or 'items'.
MemberValues ==
  {JAbsent, JNull, JText(""), JText("none")} \cup {JArray(l) : l \in ItemLists}

\* A JSON object with the given members; an absent member is no key.
ObjectWith(checklist, items) ==
  JObject([key \in {k \in {"checklist", "items"} :
                      (IF k = "checklist" THEN checklist ELSE items) # JAbsent}
             |-> IF key = "checklist" THEN checklist ELSE items])

ParseResponses ==
  RawResponses
  \cup {RawText(JNull), RawText(JText("[]"))}
  \cup {RawText(ObjectWith(c, it)) : c \in MemberValues, it \in MemberValues}

ResponseHandlers == {"claude", "openai"}

InitParse ==
  /\ IdleChunker
  /\ IdleMerger
  /\ Constructed(DefaultEnvironment)
  /\ NoCall(<<>>)
  /\ pc = "idle"
  /\ IdleBroadcaster
  /\ IdleValidator
  /\ psProvider \in ResponseHandlers
  /\ psRaw \in ParseResponses
  /\ psResult = <<>>
  /\ psPc = "call"
  /\ IdleSecondCall
  /\ IdleSelector
  /\ IdleRequest

\* The response is handled by the provider's method.
HandleResponse ==
  /\ psPc = "call"
  /\ psResult' = <<IF psProvider = "claude" THEN extractWithClaude(psRaw)
                                              ELSE extractWithOpenAI(psRaw)>>
  /\ psPc' = "done"
  /\ UNCHANGED <<psProvider, psRaw, ckVars, mgVars, svcVars, callVars, bcVars, vlVars, twVars, slVars, rqVars>>

NextParse == HandleResponse

SpecParse == InitParse /\ [][NextParse]_vars

\* ------------------------------------- the ResultMerger applied to inputs

\* Largest number of chunk results handed to mergeChunkResults.
MaxMergeChunks == 3

\* The chunks of an input that splits into n chunks.
ExampleChunks(n) ==
  IF n = 0 THEN <<>>
  ELSE createChunks(
         [header |-> Line(0, 20),
          dataRows |-> [k \in 1..((n - 1) * minRowsPerChunk + 1) |-> Line(k, 700)],
          totalRows |-> (n - 1) * minRowsPerChunk + 1],
         DefaultMaxChars)

\* What processChunkWithRetry can end with for a chunk: the items of a
\* successful attempt, or the error of the last failed one.
ChunkOutcomes ==
  {Ok(data) : data \in ItemLists}
  \cup {Fail(err) :
          err \in {NoProviderError,
                   <<"Claude processing failed", "Claude response is not an array">>}}

\* The result processChunkWithRetry returns for chunk number k (0-based).
ResultOf(chunk, k, outcome) ==
  IF outcome.ok THEN SuccessResult(chunk, k, outcome.value)
  ELSE FailureResult(chunk, k, outcome.error)

Orders(n) ==
  {f \in [1..n -> 1..n] : \A a, b \in 1..n : a # b => f[a] # f[b]}

\* One result per chunk, in any order.
MergeInputs ==
  UNION {
    LET cs == ExampleChunks(n) IN
    {[p \in 1..n |-> ResultOf(cs[order[p]], order[p] - 1, outcome[order[p]])] :
       outcome \in [1..n -> ChunkOutcomes], order \in Orders(n)}
    : n \in 0..MaxMergeChunks}

InitMerge ==
  /\ mgArg \in MergeInputs
  /\ mgArray = mgArg
  /\ mgResult = <<>>
  /\ mgPc = "call"
  /\ IdleChunker
  /\ Constructed(DefaultEnvironment)
  /\ NoCall(<<>>)
  /\ pc = "idle"
  /\ IdleBroadcaster
  /\ IdleValidator
  /\ IdleParser
  /\ IdleSecondCall
  /\ IdleSelector
  /\ IdleRequest

\* mergeChunkResults(chunkResults); its sort reorders the caller's array.
MergeCall ==
  /\ mgPc = "call"
  /\ mgResult' = <<mergeChunkResults(mgArray)>>
  /\ mgArray' = ArrayAfterMerge(mgArray)
  /\ mgPc' = "done"
  /\ UNCHANGED <<mgArg, ckVars, svcVars, callVars, bcVars, vlVars, psVars, twVars, slVars, rqVars>>

\* mergeChunkResults called once more on the same array.
MergeAgain ==
  /\ mgPc = "done"
  /\ mgResult' = Append(mgResult, mergeChunkResults(mgArray))
  /\ mgArray' = ArrayAfterMerge(mgArray)
  /\ mgPc' = "twice"
  /\ UNCHANGED <<mgArg, ckVars, svcVars, callVars, bcVars, vlVars, psVars, twVars, slVars, rqVars>>

NextMerge ==
  \/ MergeCall
  \/ MergeAgain

SpecMerge == InitMerge /\ [][NextMerge]_vars

\* ------------------------------------------------- the progress broadcaster

\* Largest number of clients that open /progress-stream.
MaxClients == 3

\* Largest number of broadcastProgress calls.
MaxBroadcasts == 3

\* The progress data the route broadcasts outside the chunk events.
RouteProgress(status, percentage) ==
  [currentChunk |-> 0, totalChunks |-> 0, currentAttempt |-> 1, maxAttempts |-> 1,
   status |-> status, percentage |-> percentage]

\* The first broadcasts of a POST /extract-checklist request, in order.
RequestProgress ==
  <<RouteProgress("Analyzing Excel file...", 0),
    RouteProgress("Extracting Excel content...", 10),
    RouteProgress("Preparing AI processing...", 20)>>

\* Payloads handed to broadcastProgress by the route.
BroadcastData == {RequestProgress[k] : k \in 1..Len(RequestProgress)}

\* The extract-checklist requests in flight.
Requests == {1, 2}

\* The number of broadcasts request r has made according to the log.
SentBy(r, log) == Cardinality({k \in 1..Len(log) : log[k] = r})

\* `data: ${JSON.stringify({...progressData, timestamp})}\n\n`, the time
\* counted in broadcasts.
Message(progressData, now) == [data |-> progressData, timestamp |-> now]

\* The confirmation written when a client connects.
ConnectedMessage(clientId, now) ==
  [type |-> "connected", clientId |-> clientId, timestamp |-> now]

\* A delete that leaves the Map as it is.
DeleteNothing(streams, clientId) == streams

\* progressStreams.delete(clientId)
Delete(streams, clientId) ==
  LET Other(c) == c # clientId IN SelectSeq(streams, Other)

\* res.write(message) on the response of clientId.
Write(recv, clientId, message) ==
  [recv EXCEPT ![clientId] = Append(@, message)]

\* A failed write that nothing catches: the error leaves broadcastProgress.
OnWriteErrorUncaught(st, clientId) == [st EXCEPT !.threw = TRUE]

\* catch (error) { progressStreams.delete(clientId) }
OnWriteError(st, clientId) ==
  [st EXCEPT !.streams = Delete(st.streams, clientId)]

\* for (const [clientId, res] of progressStreams) { try { res.write(message) }
\* catch { .. } }: `todo` are the entries not visited yet, `failing` the
\* clients whose write throws. An error that leaves the body ends the loop.
RECURSIVE broadcastLoop(_, _, _, _)
broadcastLoop(st, todo, failing, message) ==
  IF todo = <<>> \/ st.threw THEN st
  ELSE LET clientId == Head(todo) IN
       IF clientId \in failing
       THEN broadcastLoop(OnWriteError(st, clientId), Tail(todo), failing, message)
       ELSE broadcastLoop([st EXCEPT !.received = Write(@, clientId, message)],
                          Tail(todo), failing, message)

\* A broadcast that writes to the first entry of the Map only.
broadcastProgressToFirst(streams, recv, progressData, now, failing) ==
  IF Len(streams) = 0
  THEN [streams |-> streams, received |-> recv, threw |-> FALSE]
  ELSE broadcastLoop([streams |-> streams, received |-> recv, threw |-> FALSE],
                     <<Head(streams)>>, failing, Message(progressData, now))

\* broadcastProgress(progressData) at time now, the writes to the clients in
\* `failing` throwing: the Map and the responses after it, and whether an
\* error left it.
broadcastProgress(streams, recv, progressData, now, failing) ==
  IF Len(streams) = 0
  THEN [streams |-> streams, received |-> recv, threw |-> FALSE]
  ELSE broadcastLoop([streams |-> streams, received |-> recv, threw |-> FALSE],
                     streams, failing, Message(progressData, now))

\* The set of the clients registered in the Map.
Registered(streams) == {streams[k] : k \in 1..Len(streams)}

InitBroadcast ==
  /\ progressStreams = <<>>
  /\ received = [c \in 1..MaxClients |-> <<>>]
  /\ nextClient = 0
  /\ published = 0
  /\ lastBroadcast = <<>>
  /\ origins = <<>>
  /\ IdleChunker
  /\ IdleMerger
  /\ Constructed(DefaultEnvironment)
  /\ NoCall(<<>>)
  /\ pc = "idle"
  /\ IdleValidator
  /\ IdleParser
  /\ IdleSecondCall
  /\ IdleSelector
  /\ IdleRequest

\* GET /progress-stream: the client gets a fresh id, is stored in the Map and
\* is sent the confirmation.
Subscribe ==
  /\ nextClient < MaxClients
  /\ nextClient' = nextClient + 1
  /\ progressStreams' = Append(progressStreams, nextClient + 1)
  /\ received' = Write(received, nextClient + 1, ConnectedMessage(nextClient + 1, published))
  /\ UNCHANGED <<published, lastBroadcast, origins>>
  /\ UNCHANGED <<ckVars, mgVars, svcVars, callVars, vlVars, psVars, twVars, slVars, rqVars>>

\* req 'close' or 'aborted' of a connected client.
Disconnect ==
  /\ \E clientId \in Registered(progressStreams) :
       progressStreams' = Delete(progressStreams, clientId)
  /\ UNCHANGED <<received, nextClient, published, lastBroadcast, origins>>
  /\ UNCHANGED <<ckVars, mgVars, svcVars, callVars, vlVars, psVars, twVars, slVars, rqVars>>

\* A broadcastProgress call, made by one of the requests in flight with the
\* next of its progress data; the call is not told which request makes it.
Broadcast ==
  /\ published < MaxBroadcasts
  /\ \E r \in Requests, failing \in SUBSET Registered(progressStreams) :
       /\ SentBy(r, origins) < Len(RequestProgress)
       /\ LET progressData == RequestProgress[SentBy(r, origins) + 1]
              after == broadcastProgress(progressStreams, received, progressData,
                                         published + 1, failing)
          IN /\ progressData \in BroadcastData
             /\ origins' = Append(origins, r)
             /\ progressStreams' = after.streams
             /\ received' = after.received
             /\ lastBroadcast' =
                  <<[audience |-> Registered(progressStreams),
                     failing |-> failing,
                     message |-> Message(progressData, published + 1),
                     outcome |-> IF after.threw THEN "threw" ELSE "returned"]>>
  /\ published' = published + 1
  /\ UNCHANGED nextClient
  /\ UNCHANGED <<ckVars, mgVars, svcVars, callVars, vlVars, psVars, twVars, slVars, rqVars>>

NextBroadcast ==
  \/ Subscribe
  \/ Disconnect
  \/ Broadcast

SpecBroadcast == InitBroadcast /\ [][NextBroadcast]_vars

\* ------------------------------------------ the Validator applied to inputs

\* Largest number of items in a validated checklist.
MaxValidateItems == 2

\* An extracted item: question q, type t and required r as the provider gave
\* them, standing alone or depending on a parent question.
ExtractedItem(q, t, r, dependent) ==
  [question |-> q, type |-> t, required |-> r,
   options |-> IF dependent THEN JString("a,b") ELSE JUndefined,
   isDependent |-> IF dependent THEN JString("true") ELSE JUndefined,
   dependentOn |-> IF dependent THEN JString("State?") ELSE JUndefined,
   dependentOptions |-> JUndefined,
   id |-> IF dependent THEN JNumber(7) ELSE JUndefined]

ExtractedItems ==
  {ExtractedItem(q, t, r, dependent) :
     q \in {JString("Name?"), JString(" ")},
     t \in {JUndefined, JString("foo"), JString("textField"), JString("dropdown")},
     r \in {JBoolean(FALSE), JString("true"), JUndefined},
     dependent \in BOOLEAN}

ValidateInputs ==
  {JObject([checklist |-> JArray(<<>>)])}
  \cup {JArray(items) : items \in SeqUpTo(ExtractedItems, MaxValidateItems)}

InitValidate ==
  /\ vlInput \in ValidateInputs
  /\ vlChecklist = vlInput
  /\ vlResult = <<>>
  /\ vlPc = "call"
  /\ IdleChunker
  /\ IdleMerger
  /\ Constructed(DefaultEnvironment)
  /\ NoCall(<<>>)
  /\ pc = "idle"
  /\ IdleBroadcaster
  /\ IdleParser
  /\ IdleSecondCall
  /\ IdleSelector
  /\ IdleRequest

\* validateChecklist(checklist); the fixes are made on the caller's items.
ValidateCall ==
  /\ vlPc = "call"
  /\ vlResult' = <<validateChecklist(vlChecklist).validation>>
  /\ vlChecklist' = validateChecklist(vlChecklist).checklist
  /\ vlPc' = "done"
  /\ UNCHANGED <<vlInput, ckVars, mgVars, svcVars, callVars, bcVars, psVars, twVars, slVars, rqVars>>

NextValidate == ValidateCall

SpecValidate == InitValidate /\ [][NextValidate]_vars

\* ------------------------------------------------------------------ claims

\* chunk.rows as a slice of the original rows: dataRows[startIndex..endIndex]
\* (0-based, both ends included).
RowSlice(dataRows, startIndex, endIndex) ==
  [k \in 1..(endIndex - startIndex + 1) |-> dataRows[startIndex + k]]

\* C2: the chunks returned by createChunks are contiguous and non-overlapping:
\* the first starts at 0 and every chunk starts one past the end of the one
\* before it, for any number of chunks.
C2_Contiguous ==
  ckPc = "done" =>
    /\ Len(ckChunks) > 0 => ckChunks[1].startIndex = 0
    /\ \A k \in 1..(Len(ckChunks) - 1) :
         ckChunks[k].endIndex + 1 = ckChunks[k + 1].startIndex

\* C3: startIndex and endIndex of every chunk are the 0-based positions of its
\* first and last row in the original data rows, so that chunk.rows is the
\* slice dataRows[startIndex..endIndex] and has endIndex - startIndex + 1 rows.
C3_IndicesLocateRows ==
  ckPc = "done" =>
    \A k \in 1..Len(ckChunks) :
      LET c == ckChunks[k] IN
      /\ c.endIndex - c.startIndex + 1 = Len(c.rows)
      /\ c.startIndex >= 0
      /\ c.endIndex < Len(ckParsed.dataRows)
      /\ c.rows = RowSlice(ckParsed.dataRows, c.startIndex, c.endIndex)

\* C4 as stated: in a split into several chunks no chunk, the last included,
\* has fewer than minRowsPerChunk rows.
C4_NoChunkBelowFloor ==
  ckPc = "done" /\ Len(ckChunks) > 1 =>
    \A k \in 1..Len(ckChunks) : Len(ckChunks[k].rows) >= minRowsPerChunk

\* C4 as amended: every chunk other than the last has at least
\* minRowsPerChunk rows, and the last chunk has at least one row.
C4_OnlyLastBelowFloor ==
  ckPc = "done" =>
    /\ \A k \in 1..(Len(ckChunks) - 1) : Len(ckChunks[k].rows) >= minRowsPerChunk
    /\ Len(ckChunks) > 0 => Len(ckChunks[Len(ckChunks)].rows) >= 1

\* C4 witness: a split into three chunks whose last chunk is below the floor.
C4_Witness ==
  /\ ckPc = "done"
  /\ Len(ckChunks) >= 3
  /\ Len(ckChunks[Len(ckChunks)].rows) < minRowsPerChunk

\* Positions of the call inside processChunkWithRetry.
InAttempt == pc \in {"attempt", "dispatch", "awaitClaude", "awaitOpenAI",
                     "succeeded", "failed", "backoff"}

\* The chunk loop has just taken the result of a processChunkWithRetry call.
ChunkJustDone == mode = "chunked" /\ pc = "chunkLoop" /\ i > 0 /\ execLog # <<>>

\* C1: the item list extractChecklist returns has items[i].id = i + 1 at
\* every position (dense, increasing from 1, provider ids overwritten), for
\* any mix of successful and failed chunks, on the chunked and on the
\* single-unit path.
C1_DenseIds ==
  pc = "returned" =>
    \A p \in 1..Len(returned) :
      "id" \in DOMAIN returned[p] /\ returned[p].id = p

\* C1 witness: a chunked call returned items of two successful chunks around
\* a failed one, one of the items having come with a provider id of its own.
C1_Witness ==
  /\ pc = "returned"
  /\ mode = "chunked"
  /\ Len(chunkResults) = 3
  /\ chunkResults[1].success
  /\ ~chunkResults[2].success
  /\ chunkResults[3].success
  /\ chunkResults[1].data = <<ItemB, ItemA>>
  /\ chunkResults[3].data = <<ItemA>>
  /\ Len(returned) = 3

\* C5: whatever the provider calls do, processChunkWithRetry hands its caller
\* a chunk result, success or failure, and no exception leaves it: a chunked
\* call never ends by throwing, and after each invocation the result list
\* holds the result of that invocation.
C5_AlwaysAResult ==
  mode = "chunked" =>
    /\ pc # "threw"
    /\ thrown = NoError
    /\ ChunkJustDone =>
         /\ Len(chunkResults) = i
         /\ chunkResults[i].chunkIndex = i - 1
         /\ IF execLog[Len(execLog)] = "ok"
            THEN chunkResults[i] = SuccessResult(chunks[i], i - 1, result)
            ELSE chunkResults[i] = FailureResult(chunks[i], i - 1, error)

\* C5 witness: every attempt on a chunk threw and a failure result came back.
C5_Witness ==
  /\ ChunkJustDone
  /\ execLog = <<"fail", "fail", "fail">>
  /\ ~chunkResults[i].success
  /\ chunkResults[i].error = <<"Claude processing failed", "Unexpected token in JSON">>

\* C6: processChunkWithRetry calls the executor at most maxRetries + 1 times
\* for a chunk; every call before the last one failed (the first success is
\* the last call); a failure result is returned only after exactly
\* maxRetries + 1 failed calls; and calls are made only for a chunk that has
\* no result yet.
C6_BoundedAttempts ==
  mode = "chunked" =>
    /\ Len(execLog) <= maxRetries + 1
    /\ \A k \in 1..(Len(execLog) - 1) : execLog[k] = "fail"
    /\ InAttempt => Len(chunkResults) = i
    /\ ChunkJustDone =>
         /\ chunkResults[i].success <=> execLog[Len(execLog)] = "ok"
         /\ ~chunkResults[i].success =>
              /\ Len(execLog) = maxRetries + 1
              /\ \A k \in 1..Len(execLog) : execLog[k] = "fail"

\* C6 witness: after a chunk that used up all its attempts, a chunk that
\* succeeded on its second attempt.
C6_Witness ==
  /\ ChunkJustDone
  /\ i = 2
  /\ ~chunkResults[1].success
  /\ chunkResults[2].success
  /\ execLog = <<"fail", "ok">>

\* C7: chunks are processed in index order, one at a time: while chunk i is
\* being attempted exactly the chunks 0..i-1 have their final result, and at
\* most one provider request of the call is in flight at any time.
C7_OneAtATime ==
  /\ Len(inflight) <= 1
  /\ inflight # <<>> => pc \in {"awaitClaude", "awaitOpenAI"}
  /\ mode = "chunked" /\ InAttempt =>
       /\ i < Len(chunks)
       /\ Len(chunkResults) = i
       /\ \A k \in 1..Len(chunkResults) : chunkResults[k].chunkIndex = k - 1

\* C7 witness: a request for the third chunk is in flight on its second
\* attempt, the first two chunks having their results.
C7_Witness ==
  /\ mode = "chunked"
  /\ i = 2
  /\ attempt = 2
  /\ Len(inflight) = 1
  /\ Len(chunkResults) = 2

\* C8: a chunk that fails all its attempts does not stop processing: the
\* call ends only after the last chunk, and when the loop has ended the
\* result list has one result per chunk, the result at position k carrying
\* chunkIndex k.
C8_AllChunksGetAResult ==
  mode = "chunked" =>
    /\ pc \in {"returned", "threw"} => i = Len(chunks)
    /\ pc \in {"merge", "returned"} =>
         /\ Len(chunkResults) = Len(chunks)
         /\ \A k \in 1..Len(chunkResults) : chunkResults[k].chunkIndex = k - 1

\* C8 witness: the loop ended with the first of three chunks failed and the
\* later two processed.
C8_Witness ==
  /\ mode = "chunked"
  /\ pc = "merge"
  /\ Len(chunks) = 3
  /\ ~chunkResults[1].success
  /\ chunkResults[2].success
  /\ ~chunkResults[3].success

RECURSIVE CountItems(_)
CountItems(results) ==
  IF results = <<>> THEN 0
  ELSE (IF results[1].success THEN Len(results[1].data) ELSE 0)
       + CountItems(Tail(results))

\* C9: a chunk that failed all its attempts adds no item to the merged list
\* and exactly one entry to the failure list, whose rowCount is the number of
\* rows of the chunk; a successful chunk adds no failure entry.
C9_FailedChunkAccounting ==
  mode = "chunked" /\ pc = "returned" =>
    LET mr == mergeResult[1] IN
    /\ Len(mr.merged) = CountItems(chunkResults)
    /\ \A k \in 1..Len(chunks) :
         LET entries == {e \in 1..Len(mr.failed) : mr.failed[e].chunkIndex = k} IN
         IF chunkResults[k].success
         THEN entries = {}
         ELSE /\ Cardinality(entries) = 1
              /\ \A e \in entries : mr.failed[e].rowCount = Len(chunks[k].rows)

\* C9 witness: two chunks, the first succeeded with two items, the second
\* failed all its attempts.
C9_Witness ==
  /\ mode = "chunked"
  /\ pc = "returned"
  /\ Len(chunks) = 2
  /\ chunkResults[1].success
  /\ Len(chunkResults[1].data) = 2
  /\ ~chunkResults[2].success
  /\ Len(mergeResult[1].failed) = 1
  /\ Len(returned) = 2

\* The item without its id.
StripId(item) == [f \in (DOMAIN item) \ {"id"} |-> item[f]]

\* The data of the successful results with chunkIndex k, k+1, .., n-1, in that order.
RECURSIVE DataFrom(_, _, _)
DataFrom(results, k, n) ==
  IF k >= n THEN <<>>
  ELSE LET r == CHOOSE x \in {results[p] : p \in 1..Len(results)} : x.chunkIndex = k
       IN (IF r.success THEN r.data ELSE <<>>) \o DataFrom(results, k + 1, n)

\* C10: the merged list is the concatenation, in ascending chunkIndex order,
\* of the data of the successful results, item order inside a chunk kept and
\* every field other than id unchanged, also when the results are passed out
\* of chunk order.
C10_ConcatInChunkOrder ==
  mgPc = "done" =>
    LET merged == mgResult[1].merged
        expected == DataFrom(mgArg, 0, Len(mgArg))
    IN /\ Len(merged) = Len(expected)
       /\ \A p \in 1..Len(merged) : StripId(merged[p]) = StripId(expected[p])

\* C10 witness: three results passed in descending chunk order, the first
\* and the last chunk successful with different items.
C10_Witness ==
  /\ mgPc = "done"
  /\ Len(mgArg) = 3
  /\ mgArg[1].chunkIndex = 2
  /\ mgArg[2].chunkIndex = 1
  /\ mgArg[3].chunkIndex = 0
  /\ mgArg[1].success /\ mgArg[1].data = <<ItemA>>
  /\ mgArg[3].success /\ mgArg[3].data = <<ItemB, ItemA>>
  /\ Len(mgResult[1].merged) >= 3

\* C11: mergeChunkResults is idempotent: called twice on the same sequence
\* of chunk results it returns the same merged list, failed list and stats,
\* and a call leaves every chunk result, with its fields and data items, as
\* it was given (only the order of the caller's array changes).
C11_MergeIdempotent ==
  /\ mgPc \in {"done", "twice"} =>
       /\ Len(mgArray) = Len(mgArg)
       /\ \A p \in 1..Len(mgArg) : \E q \in 1..Len(mgArray) : mgArray[q] = mgArg[p]
  /\ mgPc = "twice" => mgResult[2] = mgResult[1]

\* C11 witness: two calls on three results given out of chunk order, one of
\* them a success whose items carry no id of their own, one a failure.
C11_Witness ==
  /\ mgPc = "twice"
  /\ Len(mgArg) = 3
  /\ mgArg[1].chunkIndex = 1
  /\ mgArg[1].success /\ mgArg[1].data = <<ItemB, ItemA>>
  /\ ~mgArg[2].success
  /\ mgArray # mgArg
  /\ Len(mgResult[2].merged) >= 2
  /\ Len(mgResult[2].failed) >= 1

\* The number of calls made to prov in the processSingleChunk invocation
\* entered last.
CallsTo(prov) == Cardinality({k \in 1..Len(calls) : calls[k].provider = prov})

\* The processSingleChunk invocation entered last has returned or thrown.
InvocationOver == pc \in {"succeeded", "failed"}

\* C12: in a processSingleChunk invocation with both providers enabled and
\* both clients initialized, a failed Claude call is followed by exactly one
\* OpenAI call before the invocation returns or fails, and a successful
\* Claude call by none.
C12_FallbackOnPrimaryFailure ==
  (/\ InvocationOver
   /\ shouldUseClaude(provider) /\ shouldUseOpenAI(provider)
   /\ anthropic /\ openai) =>
    /\ Len(calls) >= 1
    /\ calls[1].provider = "claude"
    /\ IF calls[1].outcome = "ok"
       THEN Len(calls) = 1
       ELSE /\ Len(calls) = 2
            /\ calls[2].provider = "openai"

\* Exactly one of the two providers is selected by the configuration.
OnlyOneConfigured == shouldUseClaude(provider) # shouldUseOpenAI(provider)

\* C13: a processSingleChunk invocation calls each provider at most once;
\* when only one provider is configured, the failure of its single call is
\* what the invocation throws, with no second provider call.
C13_AtMostOneCallEach ==
  /\ CallsTo("claude") <= 1
  /\ CallsTo("openai") <= 1
  /\ OnlyOneConfigured => Len(calls) <= 1
  /\ (OnlyOneConfigured /\ pc = "failed" /\ Len(calls) = 1) =>
       /\ calls[1].outcome = "fail"
       /\ error # NoProviderError
       /\ error # NoError

\* C13 witness: under AI_PROVIDER=claude the one Claude call has failed and
\* its error is being thrown by the invocation.
C13_Witness ==
  /\ provider = "claude"
  /\ pc = "failed"
  /\ calls = <<Call("claude", "fail")>>
  /\ error = <<"Claude processing failed", "Claude response is not an array">>

\* The elements of the array extractChecklist returned.
ReturnedElements == {returned[p] : p \in 1..Len(returned)}

\* C14: the value a chunked extractChecklist call returns carries, beside
\* the merged items, the failure record (chunk index, affected row range,
\* error) of every chunk that failed.
C14_FailuresReturned ==
  (pc = "returned" /\ mode = "chunked") =>
    \A k \in 1..Len(mergeResult[1].failed) :
      mergeResult[1].failed[k] \in ReturnedElements

\* The errors of the input level: empty source, no provider available.
InputLevelErrors ==
  {<<"Excel text is empty or invalid">>, <<"No data found in Excel text">>,
   NoProviderError}

\* C15: extractChecklist throws only for input-level failures (empty source,
\* no provider); a provider failure never leaves it as an error, whatever the
\* size of the input, the single-unit path included.
C15_ThrowsOnlyInputLevel ==
  pc = "threw" => thrown \in InputLevelErrors

\* Neither client was created by initializeClients.
NoClient == ~anthropic /\ ~openai

\* C16: with no provider client initialized, extractChecklist fails at once:
\* no retry attempt is made, no backoff delay is awaited, and the call ends
\* with an error, on the single-unit path and on the chunked path.
C16_NoClientFailsAtOnce ==
  NoClient =>
    /\ attempt <= 1
    /\ delay = 0
    /\ pc # "backoff"
    /\ pc # "returned"

\* The text has no data row: it is empty or blank, or only a header line.
HasNoDataRows(text) ==
  \/ IsEmptyText(text)
  \/ ~parseExcelToRows(text).ok
  \/ parseExcelToRows(text).value.totalRows = 0

\* C17: on an input without data rows (empty, blank, or a header alone)
\* extractChecklist throws at once and makes no provider call.
C17_NoRowsNoProviderCall ==
  HasNoDataRows(excelText) =>
    /\ calls = <<>>
    /\ inflight = <<>>
    /\ pc # "returned"

\* The number of times message was written to the response of clientId.
TimesReceived(clientId, message) ==
  Cardinality({k \in 1..Len(received[clientId]) : received[clientId][k] = message})

\* C18: when a write of broadcastProgress to one observer fails, that
\* observer is removed from the Map, every other observer registered at the
\* time has been written the same message, and broadcastProgress returns
\* normally.
C18_FailedObserverDropped ==
  lastBroadcast # <<>> =>
    LET b == lastBroadcast[1] IN
    /\ b.outcome = "returned"
    /\ \A clientId \in b.failing :
         /\ clientId \notin Registered(progressStreams)
         /\ TimesReceived(clientId, b.message) = 0
    /\ \A clientId \in b.audience \ b.failing :
         TimesReceived(clientId, b.message) = 1

\* C18 witness: three observers, the write to the second one failed; the
\* first and the third got the message and are still registered.
C18_Witness ==
  /\ lastBroadcast # <<>>
  /\ lastBroadcast[1].audience = {1, 2, 3}
  /\ lastBroadcast[1].failing = {2}
  /\ progressStreams = <<1, 3>>
  /\ TimesReceived(1, lastBroadcast[1].message) = 1
  /\ TimesReceived(3, lastBroadcast[1].message) = 1

\* The extractChecklist call has ended on an input that has at most
\* SmallDatasetRows rows and whose estimated size is within the limit.
SmallInputDone ==
  /\ pc \in {"returned", "threw"}
  /\ ~IsEmptyText(excelText)
  /\ LET parsedData == parseExcelToRows(excelText).value IN
     /\ parsedData.totalRows <= SmallDatasetRows
     /\ estimateChunkSize(parsedData.header, parsedData.dataRows)
          <= getMaxCharsForCurrentProvider(env, provider, anthropic, openai)

\* createChunks and processChunkWithRetry took no part in the call, and
\* processSingleChunk was invoked once.
SingleUnit ==
  /\ mode = "single"
  /\ chunks = <<>>
  /\ chunkResults = <<>>
  /\ attempt = 0
  /\ delay = 0
  /\ Len(execLog) = 1

\* C19 (as stated): a small input is processed as a single unit, without
\* createChunks and without the retry loop, and with exactly one provider
\* call whatever the provider configuration and the provider's answer.
C19_ExactlyOneProviderCall ==
  SmallInputDone => (SingleUnit /\ Len(calls) = 1)

\* C19 (amended): a small input is processed as a single unit, without
\* createChunks and without the retry loop, by one processSingleChunk
\* invocation; it makes one provider call, except that under provider 'both'
\* a failed Claude call is followed by one OpenAI call, and that no call is
\* made when no client is initialized.
C19_SingleUnitOneInvocation ==
  SmallInputDone =>
    /\ SingleUnit
    /\ Len(calls) <= 2
    /\ Len(calls) = 0 <=> NoClient
    /\ Len(calls) = 2 =>
         /\ provider = "both"
         /\ calls[1] = Call("claude", "fail")
         /\ calls[2].provider = "openai"
    /\ (Len(calls) = 1 /\ provider = "both" /\ anthropic /\ openai) =>
         calls[1] = Call("claude", "ok")

\* C19 witness: an input of exactly SmallDatasetRows rows returned from the
\* single-unit path after a failed Claude call and the fallback call.
C19_Witness ==
  /\ pc = "returned"
  /\ Len(excelText) = SmallDatasetRows + 1
  /\ mode = "single"
  /\ Len(calls) = 2
  /\ Len(returned) = 2

\* The type the provider gave is missing or none of the eleven kinds.
UnknownType(item) == item.type.t # "string" \/ item.type.s \notin validTypes

\* The question the provider gave is a non-blank string.
HasQuestion(item) == item.question.t = "string" /\ item.question.s \notin {"", " "}

\* The entries of a message list, as a set.
Entries(list) == {list[k] : k \in 1..Len(list)}

\* C20: validateChecklist sets the type of an item whose type is missing or
\* not one of the eleven kinds to 'textField' and records a warning for it;
\* it records no error for it and does not make the list invalid for that
\* reason (only a missing question does), and the item stays in the list.
C20_UnknownTypeAutoCorrected ==
  (vlPc = "done" /\ vlInput.t = "array" /\ Len(vlInput.items) > 0) =>
    LET before == vlInput.items
        after == vlChecklist.items
        validation == vlResult[1]
    IN /\ Len(after) = Len(before)
       /\ \A k \in 1..Len(before) :
            /\ after[k].question = before[k].question
            /\ IF UnknownType(before[k])
               THEN /\ after[k].type = JString("textField")
                    /\ <<k, "Invalid type, defaulting to textField">>
                         \in Entries(validation.warnings)
               ELSE /\ after[k].type = before[k].type
                    /\ <<k, "Invalid type, defaulting to textField">>
                         \notin Entries(validation.warnings)
       /\ \A e \in Entries(validation.errors) :
            /\ e[2] = "Question is required"
            /\ ~HasQuestion(before[e[1]])
       /\ validation.isValid <=> \A k \in 1..Len(before) : HasQuestion(before[k])

\* C20 witness: an item of type "foo" with a question, after a valid first
\* item: the list is valid, the type is textField, one warning names item 2.
C20_Witness ==
  /\ vlPc = "done"
  /\ vlInput.t = "array"
  /\ Len(vlInput.items) = 2
  /\ vlInput.items[1] =
       ExtractedItem(JString("Name?"), JString("dropdown"), JBoolean(FALSE), TRUE)
  /\ vlInput.items[2] =
       ExtractedItem(JString("Name?"), JString("foo"), JBoolean(FALSE), FALSE)
  /\ vlChecklist.items[2].type = JString("textField")
  /\ vlResult[1].isValid
  /\ vlResult[1].errors = <<>>
  /\ <<2, "Invalid type, defaulting to textField">> \in Entries(vlResult[1].warnings)

\* The status of the event that follows attempt k of a chunk whose executor
\* call ended with `outcome`.
StatusAfter(k, outcome) ==
  IF outcome = "ok" THEN "completed"
  ELSE IF k <= maxRetries THEN "retrying"
  ELSE "failed"

\* C21: for each attempt on a chunk processChunkWithRetry emits one
\* 'processing' event before the executor call and one event after it:
\* 'completed' after a success, 'retrying' after a failure with attempts
\* left, 'failed' after the last attempt failed. A chunk's events are
\* (processing, retrying)* then (processing, completed) or (processing,
\* failed), each with 1 <= attempt <= maxAttempts = maxRetries + 1.
C21_EventsPerAttempt ==
  mode = "chunked" =>
    /\ \A k \in 1..Len(events) :
         /\ events[k].maxAttempts = maxRetries + 1
         /\ 1 <= events[k].attempt
         /\ events[k].attempt <= events[k].maxAttempts
    /\ \A k \in 1..Len(execLog) :
         /\ Len(events) >= 2 * k - 1
         /\ events[2 * k - 1].status = "processing"
         /\ events[2 * k - 1].attempt = k
         /\ execLog[k] # "call" =>
              /\ Len(events) >= 2 * k
              /\ events[2 * k].attempt = k
              /\ events[2 * k].status = StatusAfter(k, execLog[k])
         /\ (execLog[k] = "ok" \/ execLog[k] = "call") => k = Len(execLog)
    /\ Len(events) =
         2 * Len(execLog)
         + (IF pc = "dispatch" THEN 1 ELSE 0)
         - (IF execLog # <<>> /\ execLog[Len(execLog)] = "call" THEN 1 ELSE 0)
    /\ ChunkJustDone => events[Len(events)].status \in {"completed", "failed"}

\* C21 witness: a chunk has just failed for good: three attempts, events
\* processing, retrying, processing, retrying, processing, failed.
C21_Witness ==
  /\ ChunkJustDone
  /\ Len(events) = 6
  /\ events[2].status = "retrying"
  /\ events[4].status = "retrying"
  /\ events[5].status = "processing"
  /\ events[6].status = "failed"
  /\ events[6].attempt = maxRetries + 1

\* processChunkWithRetry has just ended for a chunk by returning a result.
ChunkEnded == mode = "chunked" /\ pc = "chunkLoop" /\ i > 0

\* The executor invocations the outcomes in `log` call for: up to the first
\* success, or all maxRetries + 1 attempts.
InvocationsCalledFor(log) ==
  IF \E k \in 1..Len(log) : log[k] = "ok"
  THEN CHOOSE k \in 1..Len(log) : log[k] = "ok" /\ \A j \in 1..(k - 1) : log[j] # "ok"
  ELSE maxRetries + 1

\* C22: a failure of the progress callback does not affect the pipeline:
\* processChunkWithRetry always ends by returning the chunk's result, having
\* invoked the executor once per attempt up to the first success, and the
\* result is a success exactly when one of the provider outcomes was.
C22_SinkFailureHarmless ==
  mode = "chunked" =>
    /\ thrown = NoError
    /\ ChunkEnded =>
         /\ Len(execLog) = InvocationsCalledFor(execLog)
         /\ chunkResults[Len(chunkResults)].success
              = (\E k \in 1..Len(execLog) : execLog[k] = "ok")

\* The attempts of the current chunk that failed with attempts left.
FailedWithRetriesLeft ==
  {k \in 1..Len(execLog) : execLog[k] = "fail" /\ k <= maxRetries}

\* C23: the delay after failed attempt k (k <= maxRetries) of a chunk is
\* 1000 ms doubled k - 1 times (1000, 2000); there is one delay per failed
\* attempt that has attempts left, so none after a successful attempt or
\* after the last failed attempt, and the timer runs only during a backoff.
C23_ExponentialBackoff ==
  mode = "chunked" =>
    /\ Len(delays) = Cardinality(FailedWithRetriesLeft)
    /\ Len(delays) <= maxRetries
    /\ \A k \in 1..Len(delays) :
         delays[k] = IF k = 1 THEN BackoffBaseMs ELSE 2 * delays[k - 1]
    /\ pc = "backoff" => /\ Len(delays) = attempt
                         /\ delay = delays[attempt]
    /\ pc # "backoff" => delay = 0

\* C23 witness: a chunk failed on all its attempts: the delays were 1000
\* and 2000 and none followed the last failure.
C23_Witness ==
  /\ ChunkJustDone
  /\ Len(execLog) = maxRetries + 1
  /\ execLog[Len(execLog)] = "fail"
  /\ delays = <<1000, 2000>>
  /\ delay = 0

\* The acceptance rule: the response parses to an array, or to an object
\* holding an array under 'checklist' or under 'items'.
Acceptable(raw) ==
  /\ raw.kind = "text"
  /\ \/ raw.body.t = "array"
     \/ /\ raw.body.t = "object"
        /\ \E key \in {"checklist", "items"} : Member(raw.body, key).t = "array"

\* C24: a provider response is accepted exactly when it parses to an array
\* or to an object holding an array under 'checklist' or 'items', whichever
\* of extractWithClaude and extractWithOpenAI handles it.
C24_SameAcceptanceRule ==
  psPc = "done" => (psResult[1].ok <=> Acceptable(psRaw))

\* The first n rows of a chunk.
FirstRows(chunk, n) == SubSeq(chunk.rows, 1, n)

\* The close condition as the claim words it, for a running chunk `rows`
\* and the next row.
WouldOverflow(header, rows, row, maxChars) ==
  /\ estimateChunkSize(header, rows) + row.length + 1 > maxChars
  /\ Len(rows) >= minRowsPerChunk

\* C25: createChunks closes the running chunk exactly when the next row
\* would push the size estimate over maxCharsPerChunk and the running chunk
\* has at least minRowsPerChunk rows: the condition holds at every chunk
\* boundary and at no row added inside a chunk. So every chunk with more
\* than minRowsPerChunk rows has estimatedSize <= maxCharsPerChunk; only a
\* chunk of at most minRowsPerChunk rows may exceed it.
C25_CloseRule ==
  ckPc = "done" =>
    /\ \A k \in 1..(Len(ckChunks) - 1) :
         WouldOverflow(ckParsed.header, ckChunks[k].rows, ckChunks[k + 1].rows[1], ckMax)
    /\ \A k \in 1..Len(ckChunks) :
         /\ ckChunks[k].estimatedSize = estimateChunkSize(ckParsed.header, ckChunks[k].rows)
         /\ \A n \in 1..(Len(ckChunks[k].rows) - 1) :
              ~WouldOverflow(ckParsed.header, FirstRows(ckChunks[k], n),
                             ckChunks[k].rows[n + 1], ckMax)
         /\ Len(ckChunks[k].rows) > minRowsPerChunk => ckChunks[k].estimatedSize <= ckMax
         /\ ckChunks[k].estimatedSize > ckMax => Len(ckChunks[k].rows) <= minRowsPerChunk

\* C25 witness: a chunk of more than minRowsPerChunk rows was closed within
\* the limit, and another chunk is over the limit.
C25_Witness ==
  /\ ckPc = "done"
  /\ \E k \in 1..(Len(ckChunks) - 1) : Len(ckChunks[k].rows) > minRowsPerChunk
  /\ \E k \in 1..Len(ckChunks) : ckChunks[k].estimatedSize > ckMax

RECURSIVE ConcatRows(_)
ConcatRows(chunkList) ==
  IF chunkList = <<>> THEN <<>>
  ELSE chunkList[1].rows \o ConcatRows(Tail(chunkList))

\* C26: for a non-empty sequence of data rows the rows of the chunks
\* createChunks returns, concatenated in chunk order, are the data rows:
\* every row, a row larger than maxCharsPerChunk included, is in exactly one
\* chunk in its original order; and no chunk is empty.
C26_RowsPreserved ==
  ckPc = "done" /\ ckParsed.dataRows # <<>> =>
    /\ ConcatRows(ckChunks) = ckParsed.dataRows
    /\ \A k \in 1..Len(ckChunks) : ckChunks[k].rows # <<>>

\* C26 witness: a split into several chunks of an input with a row larger
\* than the limit.
C26_Witness ==
  /\ ckPc = "done"
  /\ Len(ckChunks) >= 2
  /\ \E k \in 1..Len(ckParsed.dataRows) : ckParsed.dataRows[k].length > ckMax
  /\ ConcatRows(ckChunks) = ckParsed.dataRows

\* C27: when every provider call returns or throws, a chunked call of
\* extractChecklist terminates whatever the provider failures: every chunk
\* gets its result, a success or a failure, and the call returns.
C27_ChunkedCallTerminates ==
  (mode = "chunked") ~> (pc = "returned" /\ Len(chunkResults) = Len(chunks))

\* C27 witness: a chunked call has returned after a chunk failed on all its
\* attempts and another one succeeded.
C27_Witness ==
  /\ mode = "chunked"
  /\ pc = "returned"
  /\ Len(chunkResults) = Len(chunks)
  /\ \E k \in 1..Len(chunkResults) : ~chunkResults[k].success
  /\ \E k \in 1..Len(chunkResults) : chunkResults[k].success

\* C28: during one extraction the chunkIndex of successive progress events
\* never decreases: after an event for a chunk, no event for an earlier
\* chunk is emitted.
C28_ChunkIndexNeverDecreases ==
  [][progress' # progress => progress'.chunkIndex >= progress.chunkIndex]_vars

\* C28 witness: the third chunk's events are being emitted after a retry of
\* an earlier chunk.
C28_Witness ==
  /\ mode = "chunked"
  /\ progress.chunkIndex = 2
  /\ progress.status = "retrying"
  /\ \E k \in 1..Len(chunkResults) : ~chunkResults[k].success

\* What a client has been sent is its confirmation followed by progress
\* messages in strictly increasing publish time, all published after it
\* subscribed; and a client whose write failed during the last broadcast is
\* out of the Map without that message.
DeliveredInOrder ==
  /\ \A c \in 1..MaxClients :
       /\ received[c] # <<>> => received[c][1].type = "connected"
       /\ \A k \in 2..Len(received[c]) :
            /\ received[c][k].timestamp > received[c][k - 1].timestamp
            /\ received[c][k].timestamp <= published
  /\ lastBroadcast # <<>> =>
       \A c \in lastBroadcast[1].failing :
         /\ c \notin Registered(progressStreams)
         /\ \A k \in 2..Len(received[c]) :
              received[c][k].timestamp # lastBroadcast[1].message.timestamp

\* A step sends a client at most one message, and none to a client that has
\* been removed from the Map.
NothingAfterRemoval ==
  \A c \in 1..MaxClients :
    /\ Len(received'[c]) <= Len(received[c]) + 1
    /\ (c \notin Registered(progressStreams) /\ received[c] # <<>>)
         => received'[c] = received[c]

\* C30: an observer of the progress stream receives each event published
\* while it is registered at most once and in publish order, no event
\* published before it subscribed, and no event published after it was
\* removed by a disconnect or by a failed write.
C30_AtMostOnceNoReplay == []DeliveredInOrder /\ [][NothingAfterRemoval]_vars

\* C30 witness: a client subscribed after the first broadcast, received the
\* second one, was removed, and the third broadcast was made without it.
C30_Witness ==
  \E c \in 1..MaxClients :
    /\ Len(received[c]) = 2
    /\ received[c][1].timestamp = 1
    /\ received[c][2].timestamp = 2
    /\ c \notin Registered(progressStreams)
    /\ published = 3

RECURSIVE Flatten(_)
Flatten(lists) == IF lists = <<>> THEN <<>> ELSE lists[1] \o Flatten(Tail(lists))

\* What a call returns when it runs alone and the providers answer its
\* units with the item lists in `lists`: the items in order, numbered from 1.
ReturnedAlone(lists) == AssignIndexIds(Flatten(lists))

\* The call in state s, if it has returned, returned what it returns alone
\* with the answers it was given, and has one result per chunk.
ReturnsItsOwn(s) ==
  s.pc = "returned" =>
    /\ s.returned = ReturnedAlone(s.served)
    /\ s.mode = "chunked" => Len(s.chunkResults) = Len(s.chunks)

\* C29: two extractChecklist calls whose steps interleave at their awaits
\* share no mutable per-call state: each returns the item list it would
\* return alone with the same provider responses for its own units.
C29_CallsIsolated ==
  /\ ReturnsItsOwn(CallState)
  /\ parked # <<>> => ReturnsItsOwn(parked)

\* C29 witness: the second call was made while the first one awaited a
\* provider request and has returned its own two chunks' items; the call
\* made first, back at its second chunk, holds a different first result.
C29_Witness ==
  /\ running = 1
  /\ mode = "chunked"
  /\ pc = "awaitClaude"
  /\ i = 1
  /\ chunkResults[1].success
  /\ parked # <<>>
  /\ parked.pc = "returned"
  /\ parked.mode = "chunked"
  /\ Len(parked.served) = 2
  /\ parked.served[1] # <<>>
  /\ parked.served[1] # served[1]

\* The number of rows in a 1-based range <<from, to>>.
RowsInRange(range) == range[2] - range[1] + 1

\* C31: each failure entry of mergeChunkResults carries the failed result's
\* row range 1-based (startIndex + 1 to endIndex + 1) and the 1-based chunk
\* number (chunkIndex + 1), and for failed chunks made by createChunks the
\* number of rows in that range is the entry's rowCount.
C31_FailureEntryLocatesRows ==
  mgPc = "done" =>
    \A e \in 1..Len(mgResult[1].failed) :
      LET entry == mgResult[1].failed[e] IN
      /\ \E k \in 1..Len(mgArg) :
           /\ ~mgArg[k].success
           /\ entry.chunkIndex = mgArg[k].chunkIndex + 1
           /\ entry.affectedRows = <<mgArg[k].startIndex + 1, mgArg[k].endIndex + 1>>
      /\ RowsInRange(entry.affectedRows) = entry.rowCount

\* ------------------------------------------------ selectModelForChunk alone

\* Chunk sizes around the two thresholds of selectModelForChunk.
SelectSizes == {0, 1, 1500, 2999, 3000, 3001, 4500, 5999, 6000, 6001, 9000, 20000}

\* Provider arguments: the two keys of the tier tables, names that are no key
\* (another letter case, another vendor, the empty string) and names that
\* every object inherits.
SelectProviders ==
  {"claude", "openai", "Claude", "OPENAI", "gemini", "", "constructor", "toString"}

InitSelect ==
  /\ slSize \in SelectSizes
  /\ slProvider \in SelectProviders
  /\ slModel = <<>>
  /\ slPc = "call"
  /\ IdleChunker
  /\ IdleMerger
  /\ Constructed(DefaultEnvironment)
  /\ NoCall(<<>>)
  /\ pc = "idle"
  /\ IdleBroadcaster
  /\ IdleValidator
  /\ IdleParser
  /\ IdleSecondCall
  /\ IdleRequest

\* selectModelForChunk(slSize, slProvider) returns.
SelectCall ==
  /\ slPc = "call"
  /\ slModel' = <<selectModelForChunk(slSize, slProvider)>>
  /\ slPc' = "done"
  /\ UNCHANGED <<slSize, slProvider, ckVars, mgVars, svcVars, callVars, bcVars, vlVars, psVars, twVars, rqVars>>

\* The same arguments are passed once more.
SelectAgain ==
  /\ slPc = "done"
  /\ slModel' = Append(slModel, selectModelForChunk(slSize, slProvider))
  /\ slPc' = "twice"
  /\ UNCHANGED <<slSize, slProvider, ckVars, mgVars, svcVars, callVars, bcVars, vlVars, psVars, twVars, rqVars>>

NextSelect ==
  \/ SelectCall
  \/ SelectAgain

SpecSelect == InitSelect /\ [][NextSelect]_vars

\* The tier table of the claim: the OpenAI models for 'openai', the Claude
\* models for 'claude' and for every other provider name.
TierTable(prov) ==
  IF prov = "openai"
  THEN <<"gpt-3.5-turbo", "gpt-4", "gpt-4-turbo">>
  ELSE <<"claude-3-haiku-20240307", "claude-3-sonnet-20240229",
         "claude-3-opus-20240229">>

\* The position of the tier a size belongs to: 1 small, 2 medium, 3 large.
TierOf(size) == IF size <= 3000 THEN 1 ELSE IF size <= 6000 THEN 2 ELSE 3

RECURSIVE RowChars(_)
RowChars(rows) == IF rows = <<>> THEN 0 ELSE rows[1].length + RowChars(Tail(rows))

\* C33: estimateChunkSize(header, rows) is len(header) plus len(row) + 1 for
\* every row plus 100, and the estimatedSize stored on every chunk that
\* createChunks returns is estimateChunkSize of the chunk's header and rows.
C33_StoredSizeIsEstimate ==
  ckPc = "done" =>
    \A k \in 1..Len(ckChunks) :
      LET chunk == ckChunks[k] IN
      /\ estimateChunkSize(chunk.header, chunk.rows)
           = chunk.header.length + RowChars(chunk.rows) + Len(chunk.rows) + 100
      /\ chunk.estimatedSize = estimateChunkSize(chunk.header, chunk.rows)

\* C33 witness: a split into three chunks or more with rows of both lengths,
\* whose chunks closed inside the loop and whose last chunk all carry the
\* estimate of their rows.
C33_Witness ==
  /\ ckPc = "done"
  /\ Len(ckChunks) >= 3
  /\ \E j, k \in 1..Len(ckParsed.dataRows) :
       ckParsed.dataRows[j].length # ckParsed.dataRows[k].length
  /\ \A k \in 1..Len(ckChunks) :
       ckChunks[k].estimatedSize
         = ckChunks[k].header.length + RowChars(ckChunks[k].rows)
             + Len(ckChunks[k].rows) + 100

\* C35: in the list createChunks returns, a chunk with fewer than
\* minRowsPerChunk rows can only be the final one: every chunk before the last
\* has minRowsPerChunk rows or more.
C35_ShortChunkIsFinal ==
  ckPc = "done" =>
    \A k \in 1..Len(ckChunks) :
      Len(ckChunks[k].rows) < minRowsPerChunk => k = Len(ckChunks)

\* C35 witness: a split whose final chunk is smaller than the floor while a
\* chunk before it holds more rows than the floor.
C35_Witness ==
  /\ ckPc = "done"
  /\ Len(ckChunks) >= 2
  /\ Len(ckChunks[Len(ckChunks)].rows) < minRowsPerChunk
  /\ \E k \in 1..(Len(ckChunks) - 1) : Len(ckChunks[k].rows) > minRowsPerChunk

\* C34: after validateChecklist has run on a non-empty list of extracted
\* items the required field of every item is a boolean: a boolean is kept
\* without a warning, any other value is replaced by its truth value with a
\* warning naming the item, so the string "true" becomes the boolean true;
\* the coercion records no error and the list is valid exactly when every
\* item has a question.
C34_RequiredCoercedToBoolean ==
  (vlPc = "done" /\ vlInput.t = "array" /\ Len(vlInput.items) > 0) =>
    LET before == vlInput.items
        after == vlChecklist.items
        validation == vlResult[1]
        warned(k) == <<k, "Required field converted to boolean">>
                       \in Entries(validation.warnings)
    IN /\ \A k \in 1..Len(after) :
            /\ after[k].required.t = "boolean"
            /\ before[k].required = JString("true") =>
                 (after[k].required = JBoolean(TRUE) /\ warned(k))
            /\ before[k].required.t = "boolean" =>
                 (after[k].required = before[k].required /\ ~warned(k))
            /\ before[k].required = JUndefined =>
                 (after[k].required = JBoolean(FALSE) /\ warned(k))
       /\ \A e \in Entries(validation.errors) : e[2] # "Required field converted to boolean"
       /\ (\A k \in 1..Len(before) : HasQuestion(before[k])) => validation.isValid

\* C34 witness: two items with a question and a valid type, the first with
\* required "true", the second with required false: the list is valid without
\* errors, the first item's required is the boolean true and the only warning
\* is the one about item 1.
C34_Witness ==
  /\ vlPc = "done"
  /\ vlInput.t = "array"
  /\ Len(vlInput.items) = 2
  /\ vlInput.items[1] =
       ExtractedItem(JString("Name?"), JString("textField"), JString("true"), FALSE)
  /\ vlInput.items[2] =
       ExtractedItem(JString("Name?"), JString("textField"), JBoolean(FALSE), FALSE)
  /\ vlChecklist.items[1].required = JBoolean(TRUE)
  /\ vlChecklist.items[2].required = JBoolean(FALSE)
  /\ vlResult[1].isValid
  /\ vlResult[1].errors = <<>>
  /\ vlResult[1].warnings = <<<<1, "Required field converted to boolean">>>>

\* The Claude call of the processSingleChunk invocation entered last failed.
ClaudeCallFailed ==
  \E k \in 1..Len(calls) : calls[k].provider = "claude" /\ calls[k].outcome = "fail"

\* C36: whatever the letter case in which AI_PROVIDER spells 'both' (every
\* value for which shouldUseClaude() and shouldUseOpenAI() are both true),
\* with both clients initialized, a processSingleChunk invocation whose Claude
\* call failed has called OpenAI before it is over.
C36_FallbackInAnyLetterCase ==
  (/\ InvocationOver
   /\ shouldUseClaude(provider) /\ shouldUseOpenAI(provider)
   /\ anthropic /\ openai
   /\ ClaudeCallFailed) =>
    CallsTo("openai") >= 1

\* The progress data of the broadcast made at time t: the next one of the
\* request that made it.
EventAt(t) == RequestProgress[SentBy(origins[t], SubSeq(origins, 1, t))]

\* The time at which client c connected, read from its confirmation.
ConnectedAt(c) == received[c][1].timestamp

\* C37: broadcastProgress writes an event to every observer registered when
\* it is published, whichever request produced it: an observer that is
\* registered has been written, after its confirmation, the events of both
\* requests published since it connected, interleaved in publish order; and
\* a message is made of the progress data and a timestamp only, so that it
\* does not tell which request it belongs to.
C37_ObserversSeeAllRequests ==
  /\ \A c \in Registered(progressStreams) :
       Tail(received[c]) =
         [k \in 1..(published - ConnectedAt(c)) |->
            Message(EventAt(ConnectedAt(c) + k), ConnectedAt(c) + k)]
  /\ \A c \in 1..MaxClients : \A k \in 2..Len(received[c]) :
       /\ DOMAIN received[c][k] = {"data", "timestamp"}
       /\ DOMAIN received[c][k].data =
            {"currentChunk", "totalChunks", "currentAttempt", "maxAttempts",
             "status", "percentage"}
       /\ received[c][k].data \in BroadcastData

\* C37 witness: two observers connected before anything was published, the
\* first request published, then the second, then the first again; both
\* observers hold the three events, and the first two events are the same
\* progress data under different timestamps.
C37_Witness ==
  /\ origins = <<1, 2, 1>>
  /\ progressStreams = <<1, 2>>
  /\ \A c \in {1, 2} :
       /\ Len(received[c]) = 4
       /\ received[c][2].data = received[c][3].data
       /\ received[c][4].data.status = "Extracting Excel content..."

\* ------------------------------------------- the POST /extract-checklist route

\* Largest number of chunks the text of a request is split into.
MaxRequestChunks == 6

\* Math.round(a / b) for a >= 0 and b > 0.
RoundDiv(a, b) == (2 * a + b) \div (2 * b)

\* The progress data the callback of createProgressCallback broadcasts for an
\* event of extractChecklist.
CallbackProgress(event) ==
  [currentChunk |-> event.chunkIndex + 1,
   totalChunks |-> event.totalChunks,
   currentAttempt |-> event.attempt,
   maxAttempts |-> event.maxAttempts,
   status |-> event.status,
   percentage |-> RoundDiv((event.chunkIndex + 1) * 100, event.totalChunks)]

\* The completion update of the route.
CompletionProgress ==
  [currentChunk |-> 1, totalChunks |-> 1, currentAttempt |-> 1, maxAttempts |-> 1,
   status |-> "Processing complete!", percentage |-> 100]

\* The error update of the catch block.
ErrorProgress ==
  [currentChunk |-> 0, totalChunks |-> 0, currentAttempt |-> 1, maxAttempts |-> 1,
   status |-> "Error", percentage |-> 0, error |-> TRUE]

\* excelParser.cleanupFile(path): the file is removed if it exists.
cleanupFile(onDisk) == FALSE

\* The texts read from the uploaded file: an empty sheet, and a header with
\* rows that extractChecklist handles as 1 .. MaxRequestChunks units.
RequestTexts ==
  {<<>>} \cup {UniformText((n - 1) * minRowsPerChunk + 1, 700) : n \in 1..MaxRequestChunks}

\* What the provider answers a unit with: no item, an item that passes
\* validateChecklist, an item whose question is blank.
RequestAnswers ==
  {<<>>,
   <<ExtractedItem(JString("Name?"), JString("textField"), JBoolean(FALSE), FALSE)>>,
   <<ExtractedItem(JString(" "), JString("textField"), JBoolean(FALSE), FALSE)>>}

\* id: index + 1 on the items extractChecklist returns.
NumberedItems(list) == [k \in 1..Len(list) |-> [list[k] EXCEPT !.id = JNumber(k)]]

InitRequest ==
  /\ rqPc = "received"
  /\ rqFile \in BOOLEAN
  /\ rqText \in RequestTexts
  /\ rqAnswer \in RequestAnswers
  /\ rqSent = <<>>
  /\ rqTotal = 0
  /\ rqIndex = 0
  /\ rqAttempt = 0
  /\ rqList = <<>>
  /\ rqResponse = <<>>
  /\ IdleChunker
  /\ IdleMerger
  /\ Constructed(DefaultEnvironment)
  /\ NoCall(<<>>)
  /\ pc = "idle"
  /\ IdleBroadcaster
  /\ IdleValidator
  /\ IdleParser
  /\ IdleSecondCall
  /\ IdleSelector

\* What no step of the route changes.
RequestFrame ==
  UNCHANGED <<rqText, rqAnswer, ckVars, mgVars, svcVars, callVars, bcVars, vlVars, psVars,
              twVars, slVars>>

\* res.status(status).json({ code }) without a cleanup before it.
Respond(status, code) ==
  /\ rqResponse' = <<status, code>>
  /\ rqPc' = "finished"

\* if (!file) return res.status(400) ... NO_FILE
NoFile ==
  /\ rqPc = "received"
  /\ ~rqFile
  /\ Respond(400, "NO_FILE")
  /\ UNCHANGED <<rqFile, rqSent, rqTotal, rqIndex, rqAttempt, rqList>>
  /\ RequestFrame

\* The initial progress update, up to await analyzeExcelForChunking.
Analyze ==
  /\ rqPc = "received"
  /\ rqFile
  /\ rqSent' = Append(rqSent, RequestProgress[1])
  /\ rqPc' = "analyzing"
  /\ UNCHANGED <<rqFile, rqTotal, rqIndex, rqAttempt, rqList, rqResponse>>
  /\ RequestFrame

\* The second progress update, up to await extractExcelText.
ExtractText ==
  /\ rqPc = "analyzing"
  /\ rqSent' = Append(rqSent, RequestProgress[2])
  /\ rqPc' = "extracting"
  /\ UNCHANGED <<rqFile, rqTotal, rqIndex, rqAttempt, rqList, rqResponse>>
  /\ RequestFrame

\* The catch block of the route: the error update, the cleanup, the 500.
Caught ==
  /\ rqSent' = Append(rqSent, ErrorProgress)
  /\ rqFile' = cleanupFile(rqFile)
  /\ rqResponse' = <<500, "EXTRACTION_ERROR">>
  /\ rqPc' = "finished"

\* extractExcelText rejects.
ExtractTextThrows ==
  /\ rqPc = "extracting"
  /\ Caught
  /\ UNCHANGED <<rqTotal, rqIndex, rqAttempt, rqList>>
  /\ RequestFrame

\* if (!excelText || excelText.trim().length === 0) return ... EMPTY_FILE
EmptyFile ==
  /\ rqPc = "extracting"
  /\ IsEmptyText(rqText)
  /\ Respond(400, "EMPTY_FILE")
  /\ UNCHANGED <<rqFile, rqSent, rqTotal, rqIndex, rqAttempt, rqList>>
  /\ RequestFrame

\* The third progress update and extractChecklist up to its first await: on
\* the single path its one event and the processSingleChunk call, on the
\* chunked path createChunks and the entry of the chunk loop.
Prepare ==
  /\ rqPc = "extracting"
  /\ ~IsEmptyText(rqText)
  /\ LET parsedData == parseExcelToRows(rqText).value
         estimatedSize == estimateChunkSize(parsedData.header, parsedData.dataRows)
         maxChars == getMaxCharsForCurrentProvider(env, provider, anthropic, openai)
     IN IF IsSmallDataset(estimatedSize, maxChars, parsedData.totalRows)
        THEN /\ rqSent' = rqSent \o <<RequestProgress[3],
                                      CallbackProgress(ProgressEvent(0, 1, 1, 1,
                                        "Processing single dataset"))>>
             /\ rqTotal' = 1
             /\ rqAttempt' = 1
             /\ rqPc' = "awaitSingle"
        ELSE /\ rqSent' = Append(rqSent, RequestProgress[3])
             /\ rqTotal' = Len(createChunks(parsedData, maxChars))
             /\ rqAttempt' = 1
             /\ rqPc' = "chunkLoop"
  /\ UNCHANGED <<rqFile, rqIndex, rqList, rqResponse>>
  /\ RequestFrame

\* The route from the return of extractChecklist with `list` on: the
\* completion update, validateChecklist, and one of the three responses; only
\* the last one is preceded by the cleanup.
Finish(list) ==
  LET extractedChecklist == JArray(NumberedItems(list))
      validation == validateChecklist(extractedChecklist).validation
  IN /\ rqSent' = Append(rqSent, CompletionProgress)
     /\ IF ~validation.isValid
        THEN Respond(400, "VALIDATION_FAILED") /\ UNCHANGED rqFile
        ELSE IF Len(list) = 0
        THEN Respond(400, "NO_ITEMS_EXTRACTED") /\ UNCHANGED rqFile
        ELSE /\ rqFile' = cleanupFile(rqFile)
             /\ Respond(200, "OK")

\* processSingleChunk resolves.
SingleReturns ==
  /\ rqPc = "awaitSingle"
  /\ rqList' = rqAnswer
  /\ Finish(rqAnswer)
  /\ UNCHANGED <<rqTotal, rqIndex, rqAttempt>>
  /\ RequestFrame

\* processSingleChunk rejects: extractChecklist rethrows.
SingleThrows ==
  /\ rqPc = "awaitSingle"
  /\ Caught
  /\ UNCHANGED <<rqTotal, rqIndex, rqAttempt, rqList>>
  /\ RequestFrame

\* processChunkWithRetry: the 'processing' event of an attempt, up to the
\* await of the chunk's provider call.
AttemptStart ==
  /\ rqPc = "chunkLoop"
  /\ rqIndex < rqTotal
  /\ rqSent' = Append(rqSent, CallbackProgress(
                 ProgressEvent(rqIndex, rqTotal, rqAttempt, maxRetries + 1, "processing")))
  /\ rqPc' = "awaitChunk"
  /\ UNCHANGED <<rqFile, rqTotal, rqIndex, rqAttempt, rqList, rqResponse>>
  /\ RequestFrame

\* processChunkWithRetry after the provider call: 'completed' and the next
\* chunk, 'retrying' and the next attempt, or 'failed' and the next chunk.
AttemptEnd ==
  /\ rqPc = "awaitChunk"
  /\ \E outcome \in {"ok", "fail"} :
       LET status == IF outcome = "ok" THEN "completed"
                     ELSE IF FailureDisposition("chunked", rqAttempt) = "backoff"
                     THEN "retrying"
                     ELSE "failed"
       IN /\ rqSent' = Append(rqSent, CallbackProgress(
                         ProgressEvent(rqIndex, rqTotal, rqAttempt, maxRetries + 1, status)))
          /\ rqList' = IF outcome = "ok" THEN rqList \o rqAnswer ELSE rqList
          /\ rqIndex' = IF status = "retrying" THEN rqIndex ELSE rqIndex + 1
          /\ rqAttempt' = IF status = "retrying" THEN rqAttempt + 1 ELSE 1
  /\ rqPc' = "chunkLoop"
  /\ UNCHANGED <<rqFile, rqTotal, rqResponse>>
  /\ RequestFrame

\* The chunk loop is over: mergeChunkResults, and the route goes on with the
\* merged items.
ChunkedReturns ==
  /\ rqPc = "chunkLoop"
  /\ rqIndex = rqTotal
  /\ Finish(rqList)
  /\ UNCHANGED <<rqTotal, rqIndex, rqAttempt, rqList>>
  /\ RequestFrame

NextRequest ==
  \/ NoFile
  \/ Analyze
  \/ ExtractText
  \/ ExtractTextThrows
  \/ EmptyFile
  \/ Prepare
  \/ SingleReturns
  \/ SingleThrows
  \/ AttemptStart
  \/ AttemptEnd
  \/ ChunkedReturns

SpecRequest == InitRequest /\ [][NextRequest]_vars

\* C38: when the POST /extract-checklist handler has finished, by whichever
\* response (200, EMPTY_FILE, VALIDATION_FAILED, NO_ITEMS_EXTRACTED or the 500
\* of a caught exception), the uploaded temporary file is no longer on disk.
C38_FileRemovedOnEveryPath ==
  rqPc = "finished" => ~rqFile

\* The percentages of the progress data a request has broadcast, in order.
Percentages == [k \in 1..Len(rqSent) |-> rqSent[k].percentage]

\* C39: over a request answered with 200 the percentage of the broadcast
\* progress data never decreases, from the 0 of 'Analyzing Excel file...'
\* through the chunk events to the 100 of 'Processing complete!', whatever
\* the number of chunks.
C39_PercentageNeverDecreases ==
  (rqPc = "finished" /\ rqResponse = <<200, "OK">>) =>
    /\ Percentages[1] = 0
    /\ Percentages[Len(rqSent)] = 100
    /\ \A k \in 1..(Len(rqSent) - 1) : Percentages[k] <= Percentages[k + 1]

====
